---- MODULE Spec2Model ----
(***************************************************************************)
(* Model of the whisper server (server.cpp): the cold and hot engine       *)
(* handles with their mutexes, the HTTP handlers /inference, /stream,      *)
(* /hot_stream and /load, the shared whisper_params block, and the         *)
(* WebSocket handler with its connection registry and per-connection       *)
(* audio ring.                                                             *)
(***************************************************************************)
EXTENDS Integers, Sequences, FiniteSets, TLC

VARIABLES
    mutex,              \* owner of whisper_mutex, hot_whisper_mutex, ws_connections_mutex
    ctx,                \* the cold handle `ctx`: [state, model]
    alive,              \* FALSE once the process has called exit()
    sparams,            \* server_params: [ffmpeg_converter, request_path]
    params,             \* the shared whisper_params block of main()
    default_params,     \* the copy taken at startup (server.cpp:1255)
    http,               \* per HTTP worker thread: [pc, ep, res, wparams]
    stream_buffer,      \* per HTTP worker thread: size of /stream's thread_local audio_buffer
    stream_ring,        \* per HTTP worker thread: whose samples that audio_buffer holds, in order
    ws_open,            \* connections the WebSocket library holds open
    active_connections, \* the registry vector (sequence of connection ids)
    conn,               \* per connection the WebSocketConnection object and what was sent to it
    ws,                 \* the poll thread: [pc, conn, pl_len, found, chunk]
    ws_events,          \* number of WebSocket events the poll thread has delivered
    wav,                \* a call of read_wav_content: its arguments and what it returned
    overlay,            \* a call of get_req_parameters: the parts, the block before and after
    boot,               \* main() from its first line to its return: [stage, argv, cause, code]
    diar,               \* a call of estimate_diarization_speaker: its arguments, what it read and returned
    stamp,              \* a call of to_timestamp and the cue it is printed in
    ipc                 \* a ZeroCopyIPCReader: the shared header and what read_audio_chunk did

vars == <<mutex, ctx, alive, sparams, params, default_params, http, stream_buffer, stream_ring,
          ws_open, active_connections, conn, ws, ws_events, wav, overlay, boot,
          diar, stamp, ipc>>

-----------------------------------------------------------------------------
(* Bounds of the model *)

\* WebSocket events (handshakes, closes, frames) delivered in one behaviour
MaxWsEvents == 4
\* parameter parts one /inference request carries
MaxParts == 2
\* samples the thread_local ring of /stream is let grow to
MaxStreamBuffer == 21000
\* milliseconds one step of the clock advances by
TickMs == 30000

(* Program constants *)

WHISPER_SAMPLE_RATE == 16000
\* ws_server.init: the open-connection timeout, in milliseconds
OpenConnTimeoutMs == 60000
\* the canonical WAV header read_wav_content skips
WavHeaderBytes == 44

\* processAudioData / the /stream handler: 1.1 s
min_samples == WHISPER_SAMPLE_RATE + (WHISPER_SAMPLE_RATE \div 10)
\* processAudioChunk: the window kept in the ring, 2 s
window_samples == WHISPER_SAMPLE_RATE * 2
\* processAudioChunk: the tail handed to the engine, 1.1 s
process_samples == WHISPER_SAMPLE_RATE + (WHISPER_SAMPLE_RATE \div 10)
\* the /stream handler: the 200 ms overlap kept after an inference
overlap_samples == (200 * 16000) \div 1000

-----------------------------------------------------------------------------
(* Threads and mutexes *)

HttpThreads == {"h1", "h2"}
WsThread == "ws"
NoThread == "none"
Threads == HttpThreads \cup {WsThread}

MutexNames == {"whisper_mutex", "hot_whisper_mutex", "ws_connections_mutex"}

\* std::lock_guard<std::mutex>: blocks until the mutex is free
CanLock(ms) == \A m \in ms : mutex[m] = NoThread
Locked(ms, t) == [m \in MutexNames |-> IF m \in ms THEN t ELSE mutex[m]]
Unlocked(t) == [m \in MutexNames |-> IF mutex[m] = t THEN NoThread ELSE mutex[m]]

-----------------------------------------------------------------------------
(* whisper_params and the per-request overlay *)

\* the fields of whisper_params the handlers below read or write
Defaults ==
    [ offset_n        |-> 0,
      translate       |-> FALSE,
      detect_language |-> FALSE,
      diarize         |-> TRUE,
      tinydiarize     |-> FALSE,
      language        |-> "en",
      response_format |-> "json" ]

\* command-line flags whisper_params_parse sets
Flags == {"-tr", "-di", "-tdrz", "-dl"}

whisper_params_parse(flags) ==
    [ Defaults EXCEPT
        !.translate       = IF "-tr"   \in flags THEN TRUE ELSE @,
        !.diarize         = IF "-di"   \in flags THEN TRUE ELSE @,
        !.tinydiarize     = IF "-tdrz" \in flags THEN TRUE ELSE @,
        !.detect_language = IF "-dl"   \in flags THEN TRUE ELSE @ ]

\* main() while it serves: past every startup step, not returned
Booted == [stage |-> "listen", argv |-> [fault |-> "none", flags |-> {}, language |-> "en",
                                         dtw |-> "", convert |-> FALSE],
           cause |-> "none", code |-> -1]

\* main(): exit(0) when both diarize and tinydiarize are set at startup
StartupAccepts(p) == ~(p.diarize /\ p.tinydiarize)

parse_str_to_bool(s) == s \in {"true", "1", "yes", "y"}

\* std::stoi: the leading integer of the content; it throws when there is none
stoi_throws(s) == s \notin {"7", "0", "30x"}
stoi(s) ==
    CASE s = "7"    -> 7
      [] s = "0"    -> 0
      [] s = "30x"  -> 30

\* the multipart parts get_req_parameters reads, in the order it reads them
PartOrder == << "offset_n", "translate", "diarize", "tinydiarize",
                "language", "detect_language", "response_format" >>
IntParts  == {"offset_n"}
BoolParts == {"translate", "diarize", "tinydiarize", "detect_language"}

\* one part applied to the block; a failed stoi throws
Throws(name, content) == name \in IntParts /\ stoi_throws(content)

ApplyPart(p, name, content) ==
    IF name \in IntParts THEN [p EXCEPT ![name] = stoi(content)]
    ELSE IF name \in BoolParts THEN [p EXCEPT ![name] = parse_str_to_bool(content)]
    ELSE [p EXCEPT ![name] = content]

\* get_req_parameters: one try block around all the parts, so the first throw
\* leaves the block as it is at that point and skips the parts after it
RECURSIVE Overlay(_, _, _)
Overlay(p, parts, i) ==
    IF i > Len(PartOrder) THEN p
    ELSE LET name == PartOrder[i] IN
         IF name \notin DOMAIN parts THEN Overlay(p, parts, i + 1)
         ELSE IF Throws(name, parts[name]) THEN p
         ELSE Overlay(ApplyPart(p, name, parts[name]), parts, i + 1)

get_req_parameters(parts, p) == Overlay(p, parts, 1)

\* no call made
NoOverlay == [state |-> "none", parts |-> [n \in {} |-> "none"],
              before |-> Defaults, after |-> Defaults]

\* a handler hands the parts of a request and its block to get_req_parameters,
\* which returns
GetReqParameters ==
    /\ overlay.state = "call"
    /\ overlay' = [overlay EXCEPT !.state = "returned",
                                  !.after = get_req_parameters(overlay.parts, overlay.before)]
    /\ UNCHANGED <<mutex, ctx, alive, sparams, diar, stamp, ipc, params, default_params, http, stream_buffer, stream_ring,
                   ws_open, active_connections, conn, ws, ws_events, wav, boot>>

-----------------------------------------------------------------------------
(* The engine (whisper.cpp), a dependency: what the handlers see of it *)

\* the model files on disk, named by what they hold
Models == {"base.en", "large"}
whisper_is_multilingual(m) == m = "large"

\* paths a /load request may name
ModelPaths == Models \cup {"missing"}

\* is_file_exist: the file opens for reading
is_file_exist_good(fileName) == TRUE
is_file_exist(fileName) == fileName \in Models

\* return codes of whisper_full / whisper_full_parallel
EngineRcs == {0, 1}

\* the segments of a finished inference, each a text as a character sequence
\* (an empty text stands for a null or empty segment)
EngineSegments ==
    { <<>>,
      << <<>> >>,
      << <<" ">> >>,
      << <<"\t">>, <<"\n", "\r">> >>,
      << <<"a">> >>,
      << <<" ", "a">>, <<"\t", "b", "\n">> >>,
      << <<"\r">>, <<>>, <<"a", " ", "b", " ">> >> }

\* processAudioChunk: the texts of the segments appended in order, a null or
\* empty one skipped
RECURSIVE Transcription(_)
Transcription(segments) ==
    IF segments = <<>> THEN <<>>
    ELSE IF Head(segments) = <<>> THEN Transcription(Tail(segments))
    ELSE Head(segments) \o Transcription(Tail(segments))

\* the concatenated segment texts of a finished inference
EngineTexts == {Transcription(segments) : segments \in EngineSegments}

-----------------------------------------------------------------------------
(* Audio decoding *)

\* read_wav_content: fails below 44 bytes, else (N - 44) / 2 samples
read_wav_content_ok(n) == n >= WavHeaderBytes
read_wav_content_samples(n) == (n - WavHeaderBytes) \div 2

\* static_cast<float>(sample) / 32768.0f: a sample is kept as its numerator
\* over PcmScale, which a float holds exactly
PcmScale == 32768

\* the int16_t read at two bytes of the blob, low byte first
int16_unsigned(lo, hi) == lo + 256 * hi
int16(lo, hi) ==
    LET u == lo + 256 * hi IN IF u >= 32768 THEN u - 65536 ELSE u

\* read_wav_content(content, pcmf32, pcmf32s, stereo): what it returns and
\* what it leaves in pcmf32 and pcmf32s, which the callers pass in empty
read_wav_content(content, stereo) ==
    IF Len(content) < WavHeaderBytes
    THEN [ok |-> FALSE, pcmf32 |-> <<>>, pcmf32s |-> <<>>]
    ELSE LET data_size   == Len(content) - WavHeaderBytes
             num_samples == data_size \div 2
             pcm == [i \in 1..num_samples |->
                        int16(content[WavHeaderBytes + 2 * (i - 1) + 1],
                              content[WavHeaderBytes + 2 * (i - 1) + 2])]
         IN  [ok      |-> TRUE,
              pcmf32  |-> pcm,
              pcmf32s |-> IF stereo /\ num_samples % 2 = 0
                          THEN << [i \in 1..(num_samples \div 2) |-> pcm[2 * i - 1]],
                                  [i \in 1..(num_samples \div 2) |-> pcm[2 * i]] >>
                          ELSE <<>>]

\* no call made
NoWav == [state |-> "none", content |-> <<>>, stereo |-> FALSE,
          ok |-> FALSE, pcmf32 |-> <<>>, pcmf32s |-> <<>>]

\* a caller hands a blob to read_wav_content, which returns
ReadWavContent ==
    /\ wav.state = "call"
    /\ LET r == read_wav_content(wav.content, wav.stereo) IN
       wav' = [wav EXCEPT !.state = "returned", !.ok = r.ok,
                          !.pcmf32 = r.pcmf32, !.pcmf32s = r.pcmf32s]
    /\ UNCHANGED <<mutex, ctx, alive, sparams, diar, stamp, ipc, params, default_params, http, stream_buffer, stream_ring,
                   ws_open, active_connections, conn, ws, ws_events, overlay, boot>>

-----------------------------------------------------------------------------
(* Stereo diarization: estimate_diarization_speaker *)

\* (int) (t * k) for an int64 t and a small k: the low 32 bits of the product
\* as a two's complement number, computed on 16-bit halves of t
IntOfProduct(t, k) ==
    IF t < 0 THEN t * k
    ELSE LET tl == t % 65536
             th == t \div 65536
             lo == (tl * k) % 65536
             hi == (th * k + (tl * k) \div 65536) % 65536
         IN  IF hi >= 32768 THEN (hi - 65536) * 65536 + lo ELSE hi * 65536 + lo

Min(a, b) == IF a < b THEN a ELSE b
Max(a, b) == IF a > b THEN a ELSE b

\* timestamp_to_sample: the sample index of a time in 10-ms units, held
\* between 0 and n_samples - 1; (t * whisper_sample_rate) / 100 is an int64
\* that is converted to int, and the rate is a multiple of 100
timestamp_to_sample_unclamped(t, n_samples, whisper_sample_rate) ==
    Max(0, IntOfProduct(t, whisper_sample_rate \div 100))
timestamp_to_sample(t, n_samples, whisper_sample_rate) ==
    Max(0, Min(n_samples - 1, IntOfProduct(t, whisper_sample_rate \div 100)))

Abs(x) == IF x < 0 THEN -x ELSE x

\* the loop of estimate_diarization_speaker: fabs of the samples j of a
\* channel, is0 <= j < is1, added up (index j is element j + 1 here)
\* (the sum is formed over halves of the range)
RECURSIVE Energy(_, _, _)
Energy(channel, is0, is1) ==
    IF is0 >= is1 THEN 0
    ELSE IF is1 = is0 + 1 THEN Abs(channel[is1])
    ELSE LET mid == (is0 + is1) \div 2 IN
         Energy(channel, is0, mid) + Energy(channel, mid, is1)

\* estimate_diarization_speaker: the label, and the sample indices it read
\* (a read outside a channel has no defined value and adds nothing here);
\* samples are in units in which 1.1 * energy is exact
estimate_diarization_speaker(pcmf32s, t0, t1, id_only) ==
    LET n_samples == Len(pcmf32s[1])
        is0 == timestamp_to_sample(t0, n_samples, WHISPER_SAMPLE_RATE)
        is1 == timestamp_to_sample(t1, n_samples, WHISPER_SAMPLE_RATE)
        reads == {j \in is0..(is1 - 1) : TRUE}
        in_bounds == reads \subseteq 0..(n_samples - 1)
        energy0 == IF in_bounds THEN Energy(pcmf32s[1], is0, is1) ELSE 0
        energy1 == IF in_bounds THEN Energy(pcmf32s[2], is0, is1) ELSE 0
        speaker == IF 10 * energy0 > 11 * energy1 THEN "0"
                   ELSE IF 10 * energy1 > 11 * energy0 THEN "1"
                   ELSE "?"
    IN  [is0 |-> is0, is1 |-> is1, reads |-> reads,
         speaker |-> IF id_only THEN speaker ELSE "(speaker " \o speaker \o ")"]

\* no call made
NoDiar == [state |-> "none", pcmf32s |-> << <<>>, <<>> >>, t0 |-> 0, t1 |-> 0, id_only |-> FALSE,
           is0 |-> 0, is1 |-> 0, reads |-> {}, speaker |-> ""]

\* a formatter hands the two channels and a segment to
\* estimate_diarization_speaker, which returns
EstimateDiarizationSpeaker ==
    /\ diar.state = "call"
    /\ LET r == estimate_diarization_speaker(diar.pcmf32s, diar.t0, diar.t1, diar.id_only) IN
       diar' = [diar EXCEPT !.state = "returned", !.is0 = r.is0, !.is1 = r.is1,
                            !.reads = r.reads, !.speaker = r.speaker]
    /\ UNCHANGED <<mutex, ctx, alive, sparams, params, default_params, http, stream_buffer,
                   stream_ring, ws_open, active_connections, conn, ws, ws_events,
                   wav, overlay, boot, stamp, ipc>>

-----------------------------------------------------------------------------
(* Cue timestamps and numbers: to_timestamp and the SRT / VTT loops *)

DigitChars == <<"0", "1", "2", "3", "4", "5", "6", "7", "8", "9">>

\* snprintf %0<width>d of a number that is not negative: its decimal digits,
\* with zeros in front up to the width
RECURSIVE Printf0d(_, _)
Printf0d(n, width) ==
    IF n < 10 /\ width <= 1 THEN << DigitChars[n + 1] >>
    ELSE Append(Printf0d(n \div 10, width - 1), DigitChars[(n % 10) + 1])

\* to_timestamp: a time in 10-ms units as hh:mm:ss and milliseconds, split off
\* one after the other
to_timestamp_centis(t, comma) ==
    LET hr == t \div (1000 * 60 * 60)
        m1 == t - hr * (1000 * 60 * 60)
        min == m1 \div (1000 * 60)
        m2 == m1 - min * (1000 * 60)
        sec == m2 \div 1000
        msec == m2 - sec * 1000
    IN  Printf0d(hr, 2) \o <<":">> \o Printf0d(min, 2) \o <<":">> \o Printf0d(sec, 2)
          \o << IF comma THEN "," ELSE "." >> \o Printf0d(msec, 3)
to_timestamp(t, comma) ==
    LET msec0 == t * 10
        hr == msec0 \div (1000 * 60 * 60)
        msec1 == msec0 - hr * (1000 * 60 * 60)
        min == msec1 \div (1000 * 60)
        msec2 == msec1 - min * (1000 * 60)
        sec == msec2 \div 1000
        msec == msec2 - sec * 1000
    IN  Printf0d(hr, 2) \o <<":">> \o Printf0d(min, 2) \o <<":">> \o Printf0d(sec, 2)
          \o << IF comma THEN "," ELSE "." >> \o Printf0d(msec, 3)

\* the number the SRT loop prints for segment i
CueNumber(i, offset_n) == i + 1 + offset_n

\* the formats with cues, and the separator argument each loop passes
CueFormats == {"srt", "vtt"}
CommaFor(format) == format = "srt"

\* no cue formatted
NoStamp == [state |-> "none", format |-> "srt", i |-> 0, offset_n |-> 0, t |-> 0,
            text |-> <<>>, number |-> 0]

\* the formatting loop prints the cue of segment i: its number (SRT only)
\* and the timestamp of its time t
FormatCue ==
    /\ stamp.state = "call"
    /\ stamp' = [stamp EXCEPT
                   !.state = "returned",
                   !.text = to_timestamp(stamp.t, CommaFor(stamp.format)),
                   !.number = IF stamp.format = "srt"
                              THEN CueNumber(stamp.i, stamp.offset_n) ELSE 0]
    /\ UNCHANGED <<mutex, ctx, alive, sparams, params, default_params, http, stream_buffer,
                   stream_ring, ws_open, active_connections, conn, ws, ws_events,
                   wav, overlay, boot, diar, ipc>>

-----------------------------------------------------------------------------
(* Shared-memory reader: ZeroCopyIPCReader::read_audio_chunk *)

SHARED_MEMORY_SIZE == 16 * 1024 * 1024
MAX_CHUNK_SIZE == 1024 * 1024

\* sizeof(SharedHeader), packed: four 32-bit fields, one byte, 64 reserved
sizeof_SharedHeader == 81
sizeof_float == 4

\* data_size_ as initialize() sets it
data_size_ == SHARED_MEMORY_SIZE - sizeof_SharedHeader

\* the header as constructed
EmptyHeader == [write_pos |-> 0, read_pos |-> 0, status |-> 0, chunk_size |-> 0]

\* one call on header h: the header it leaves, the size of the vector it
\* returns, the number of bytes memcpy moves and the byte offset in the data
\* region memcpy reads from. The positions stay below 2^25 and the chunk
\* size below 2^20, so no sum of the function leaves 32 bits.
read_audio_chunk(h) ==
    IF h.status # 1 \/ h.chunk_size = 0 \/ h.chunk_size > MAX_CHUNK_SIZE
    THEN [header |-> h, floats |-> 0, copied |-> 0, src |-> 0]
    ELSE LET num_samples == h.chunk_size \div sizeof_float
             read_pos == IF h.read_pos + h.chunk_size > data_size_ THEN 0 ELSE h.read_pos
             stored == read_pos + h.chunk_size
         IN  [header |-> [h EXCEPT !.read_pos = stored,
                                   !.status = IF stored >= h.write_pos THEN 0 ELSE @],
              floats |-> num_samples,
              copied |-> h.chunk_size,
              src |-> (read_pos \div sizeof_float) * sizeof_float]

\* no reader made
NoIpc == [state |-> "none", header |-> EmptyHeader, before |-> EmptyHeader,
          floats |-> 0, copied |-> 0, src |-> 0, calls |-> 0]

\* calls made on one header
MaxReads == 2

\* a call of read_audio_chunk: without a mapping it returns an empty vector;
\* a memcpy that writes past the end of the vector is undefined, and the call
\* either returns or the process dies
ReadAudioChunk ==
    /\ ipc.state \in {"unmapped", "mapped", "returned"}
    /\ ipc.calls < MaxReads
    /\ IF ipc.state = "unmapped"
       THEN ipc' = [ipc EXCEPT !.calls = @ + 1, !.before = ipc.header,
                               !.floats = 0, !.copied = 0, !.src = 0]
       ELSE LET r == read_audio_chunk(ipc.header) IN
            \E outcome \in IF r.copied > sizeof_float * r.floats
                            THEN {"returned", "crashed"} ELSE {"returned"} :
                ipc' = [state |-> outcome, header |-> r.header, before |-> ipc.header,
                        floats |-> r.floats, copied |-> r.copied, src |-> r.src,
                        calls |-> ipc.calls + 1]
    /\ UNCHANGED <<mutex, ctx, alive, sparams, params, default_params, http, stream_buffer,
                   stream_ring, ws_open, active_connections, conn, ws, ws_events,
                   wav, overlay, boot, diar, stamp>>

-----------------------------------------------------------------------------
(* HTTP surface: the routes in registration order *)

Routes == << [path |-> "/hot_stream", handler |-> "hot_stream"],
             [path |-> "/inference",  handler |-> "inference"],
             [path |-> "/stream",     handler |-> "stream"],
             [path |-> "/hot_stream", handler |-> "hot_stream_chunked"],
             [path |-> "/load",       handler |-> "load"] >>

\* the routes are registered under sparams.request_path
Served(path) == \E i \in DOMAIN Routes : sparams.request_path \o Routes[i].path = path

\* httplib runs the first registered handler whose pattern matches the path
Dispatch(path) ==
    LET hits == {i \in DOMAIN Routes : sparams.request_path \o Routes[i].path = path}
        first == CHOOSE i \in hits : \A j \in hits : i <= j
    IN  Routes[first].handler

Paths == {Routes[i].path : i \in DOMAIN Routes}

\* the mutexes each handler takes with its lock_guard, and the handle it runs on
HotStreamLocks == {"hot_whisper_mutex"}
InferenceLocks_both == {"whisper_mutex", "hot_whisper_mutex"}
InferenceLocks == {"whisper_mutex"}
StreamLocks_hot == {"hot_whisper_mutex"}
StreamLocks    == {"whisper_mutex"}
LoadLocks_none == {}
LoadLocks      == {"whisper_mutex"}

HandlerLocks(h) ==
    CASE h = "hot_stream" -> HotStreamLocks
      [] h = "inference"  -> InferenceLocks
      [] h = "stream"     -> StreamLocks
      [] h = "load"       -> LoadLocks

HotStreamHandle == "hot_ctx"
InferenceHandle == "ctx"
StreamHandle    == "ctx"

NoWparams == [set |-> FALSE]
\* what a request made of its audio part: whether it had one, its length, and
\* what the converter and read_wav made of it
NoAudio == [has_file |-> FALSE, file_len |-> 0, convert_ok |-> FALSE, read_ok |-> FALSE]

\* the body of a /stream response: the length of its segments array and its
\* buffer_size_ms
NoOut == [segments |-> 0, buffer_size_ms |-> 0]

\* a worker between requests; `ran` tells whether the last request entered the
\* engine and `audio` what its audio part was; for /stream, `appended` is the
\* number of samples the request added to the ring, `input` the number of
\* samples the engine was given and `out` the response body
Idle == [pc |-> "idle", ep |-> "none", res |-> "none", handle |-> "none", wparams |-> NoWparams,
         model |-> "none", ran |-> FALSE, audio |-> NoAudio,
         appended |-> 0, input |-> 0, out |-> NoOut, client |-> "k1",
         has_audio |-> FALSE]

\* a handler returns: the response is set and the lock_guard releases its mutex
Return_locked(t, r) ==
    /\ http' = [http EXCEPT ![t] = [Idle EXCEPT !.res = r, !.ep = http[t].ep,
                                                !.ran = http[t].ran, !.audio = http[t].audio,
                                                !.has_audio = http[t].has_audio]]
    /\ mutex' = mutex
Return(t, r) ==
    /\ http' = [http EXCEPT ![t] = [Idle EXCEPT !.res = r, !.ep = http[t].ep,
                                                !.ran = http[t].ran, !.audio = http[t].audio,
                                                !.has_audio = http[t].has_audio]]
    /\ mutex' = Unlocked(t)

\* a handler enters whisper_full / whisper_full_parallel on a handle
Run(t, h, wp) ==
    http' = [http EXCEPT ![t].pc = "run", ![t].handle = h, ![t].wparams = wp, ![t].ran = TRUE]

\* the same two, with the audio part of the request kept for the record
ReturnAudio(t, r, audio) ==
    /\ http' = [http EXCEPT ![t] = [Idle EXCEPT !.res = r, !.ep = http[t].ep,
                                                !.ran = http[t].ran, !.audio = audio]]
    /\ mutex' = Unlocked(t)

RunAudio(t, h, wp, audio) ==
    http' = [http EXCEPT ![t].pc = "run", ![t].handle = h, ![t].wparams = wp,
                         ![t].ran = TRUE, ![t].audio = audio]

\* a request for `path` reaches a worker thread, which runs the handler
Arrive(t, path) ==
    /\ alive
    /\ http[t].pc = "idle"
    /\ Served(path)
    /\ http' = [http EXCEPT ![t] = [Idle EXCEPT !.pc = "wait", !.ep = Dispatch(path)]]
    /\ UNCHANGED <<mutex, ctx, alive, sparams, diar, stamp, ipc, wav, overlay, boot, params, default_params, stream_buffer, stream_ring,
                   ws_open, active_connections, conn, ws, ws_events>>

\* client connections, and a request of connection k handed to worker t: the
\* HTTP surface serves the requests on a small pool of workers
Clients == {"k1", "k2"}

ArriveFrom(t, path, k) ==
    /\ alive
    /\ http[t].pc = "idle"
    /\ Served(path)
    /\ http' = [http EXCEPT ![t] = [Idle EXCEPT !.pc = "wait", !.ep = Dispatch(path),
                                                !.client = k]]
    /\ UNCHANGED <<mutex, ctx, alive, sparams, diar, stamp, ipc, wav, overlay, boot, params, default_params,
                   stream_buffer, stream_ring,
                   ws_open, active_connections, conn, ws, ws_events>>

\* what the code a handler is about to run does with the shared parameter
\* block `params`: /hot_stream reads params.n_threads while it builds its
\* whisper_full_params, /inference overlays the block before the engine call
\* and resets it after, /stream reads params.n_threads
ParamsAccess(h, pc) ==
    CASE h = "hot_stream" /\ pc = "locked"          -> "read"
      [] h = "inference" /\ pc \in {"locked", "run"} -> "write"
      [] h = "stream" /\ pc = "locked"              -> "read"
      [] OTHER                                      -> "none"

\* std::lock_guard at the top of a handler
Acquire(t) ==
    /\ alive
    /\ http[t].pc = "wait"
    /\ CanLock(HandlerLocks(http[t].ep))
    /\ mutex' = Locked(HandlerLocks(http[t].ep), t)
    /\ http' = [http EXCEPT ![t].pc = "locked"]
    /\ UNCHANGED <<ctx, alive, sparams, diar, stamp, ipc, wav, overlay, boot, params, default_params, stream_buffer, stream_ring,
                   ws_open, active_connections, conn, ws, ws_events>>

-----------------------------------------------------------------------------
(* POST /hot_stream, the first registration: one WAV blob on the hot handle *)

\* the handler looks for the `file` part only, whatever else the request has
HotStreamRequest(t, has_file, file_len, has_audio) ==
    /\ alive
    /\ http[t].pc = "locked" /\ http[t].ep = "hot_stream"
    /\ LET seen == [http EXCEPT ![t].audio = [NoAudio EXCEPT !.has_file = has_file,
                                                              !.file_len = file_len],
                                ![t].has_audio = has_audio]
       IN  IF ~has_file \/ ~read_wav_content_ok(file_len)
           THEN /\ http' = [seen EXCEPT ![t].pc = "idle", ![t].handle = "none",
                                        ![t].res = IF ~has_file THEN "err_no_file"
                                                   ELSE "err_read_wav"]
                /\ mutex' = Unlocked(t)
           ELSE /\ http' = [seen EXCEPT ![t].pc = "run", ![t].handle = HotStreamHandle,
                                        ![t].wparams = NoWparams, ![t].ran = TRUE]
                /\ UNCHANGED mutex
    /\ UNCHANGED <<ctx, alive, sparams, diar, stamp, ipc, wav, overlay, boot, params, default_params, stream_buffer, stream_ring,
                   ws_open, active_connections, conn, ws, ws_events>>

HotStreamBody(t, has_file, file_len) ==
    /\ alive
    /\ http[t].pc = "locked" /\ http[t].ep = "hot_stream"
    /\ IF ~has_file THEN Return(t, "err_no_file")
       ELSE IF ~read_wav_content_ok(file_len) THEN Return(t, "err_read_wav")
       ELSE /\ Run(t, HotStreamHandle, NoWparams)
            /\ UNCHANGED mutex
    /\ UNCHANGED <<ctx, alive, sparams, diar, stamp, ipc, wav, overlay, boot, params, default_params, stream_buffer, stream_ring,
                   ws_open, active_connections, conn, ws, ws_events>>

HotStreamEnd(t, rc) ==
    /\ alive
    /\ http[t].pc = "run" /\ http[t].ep = "hot_stream"
    /\ Return(t, IF rc # 0 THEN "err_hot_inference" ELSE "ok_hot_stream")
    /\ UNCHANGED <<ctx, alive, sparams, diar, stamp, ipc, wav, overlay, boot, params, default_params, stream_buffer, stream_ring,
                   ws_open, active_connections, conn, ws, ws_events>>

-----------------------------------------------------------------------------
(* POST /inference *)

\* the handler forces "en" and no translation on a model that is not
\* multilingual, then lets detect_language override the language
CoerceLanguage(p, multilingual) ==
    LET q == IF ~multilingual /\ (p.language # "en" \/ p.translate)
             THEN [p EXCEPT !.language = "en", !.translate = FALSE]
             ELSE p
    IN  IF q.detect_language THEN [q EXCEPT !.language = "auto"] ELSE q

\* the whisper_full_params the handler builds from the block
InferenceWparams(p) ==
    [ set           |-> TRUE,
      translate     |-> p.translate,
      language      |-> p.language,
      tdrz_enable   |-> p.tinydiarize,
      diarize       |-> p.diarize ]

\* the audio of the request decodes: through ffmpeg and read_wav when the
\* converter is on, else through read_wav_content
InferenceDecodes_unchecked(req) == TRUE
InferenceDecodes(req) ==
    IF sparams.ffmpeg_converter THEN req.convert_ok /\ req.read_ok
    ELSE read_wav_content_ok(req.file_len)

\* the audio part of a request as the handler meets it
AudioOf(req) ==
    [has_file |-> req.has_file, file_len |-> req.file_len,
     convert_ok |-> req.convert_ok, read_ok |-> req.read_ok]

InferenceDecodeError(req) ==
    IF sparams.ffmpeg_converter /\ ~req.convert_ok THEN "err_convert" ELSE "err_read_wav"

\* the block a decode-error return leaves behind
ParamsAfterDecodeError(overlaid) == overlaid

InferenceBody(t, req) ==
    /\ alive
    /\ http[t].pc = "locked" /\ http[t].ep = "inference"
    /\ IF ~req.has_file
       THEN /\ ReturnAudio(t, "err_no_file", AudioOf(req))
            /\ UNCHANGED params
       ELSE LET overlaid == get_req_parameters(req.parts, params) IN
            IF ~InferenceDecodes(req)
            THEN /\ ReturnAudio(t, InferenceDecodeError(req), AudioOf(req))
                 /\ params' = ParamsAfterDecodeError(overlaid)
            ELSE LET p == CoerceLanguage(overlaid, whisper_is_multilingual(ctx.model)) IN
                 /\ params' = p
                 /\ RunAudio(t, InferenceHandle, InferenceWparams(p), AudioOf(req))
                 /\ UNCHANGED mutex
    /\ UNCHANGED <<ctx, alive, sparams, diar, stamp, ipc, wav, overlay, boot, default_params, stream_buffer, stream_ring,
                   ws_open, active_connections, conn, ws, ws_events>>

\* the response of a finished inference, by response_format
FormatResponse(p) ==
    CASE p.response_format = "text"         -> "ok_text"
      [] p.response_format = "srt"          -> "ok_srt"
      [] p.response_format = "vtt"          -> "ok_vtt"
      [] p.response_format = "verbose_json" -> "ok_verbose_json"
      [] OTHER                              -> "ok_json"

Formatted == {"ok_text", "ok_srt", "ok_vtt", "ok_verbose_json", "ok_json"}

\* the block when the handler returns: after an engine error, after a response
ParamsAfterEngineError(p) == p
ParamsAfterResponse_keep(p) == p
ParamsAfterResponse(p) == default_params

InferenceEnd(t, rc) ==
    /\ alive
    /\ http[t].pc = "run" /\ http[t].ep = "inference"
    /\ IF rc # 0
       THEN /\ Return(t, "err_engine")
            /\ params' = ParamsAfterEngineError(params)
       ELSE /\ Return(t, FormatResponse(params))
            /\ params' = ParamsAfterResponse(params)
    /\ UNCHANGED <<ctx, alive, sparams, diar, stamp, ipc, wav, overlay, boot, default_params, stream_buffer, stream_ring,
                   ws_open, active_connections, conn, ws, ws_events>>

-----------------------------------------------------------------------------
(* POST /stream: float samples appended to the thread_local ring *)

\* the request's samples: content.size() / sizeof(float)
StreamSamples(n_bytes) == n_bytes \div 4

\* the ring after a successful inference: the last overlap_samples of it
StreamPrune_clear(n) == 0
StreamPrune(n) == IF n > overlap_samples THEN overlap_samples ELSE 0

\* response["buffer_size_ms"]
BufferSizeMs(n) == (n * 1000) \div 16000

\* numbers of segments the engine leaves after a call made for /stream
StreamSegmentCounts == {0, 2}

\* the handler enters whisper_full with the whole ring
StreamRun(t, appended, ring) ==
    http' = [http EXCEPT ![t].pc = "run", ![t].handle = StreamHandle,
                         ![t].wparams = NoWparams, ![t].ran = TRUE,
                         ![t].appended = appended, ![t].input = ring]

\* the handler answers with the segments and the size of the ring
StreamReturn(t, appended, segments, ring) ==
    /\ http' = [http EXCEPT ![t] =
                  [Idle EXCEPT !.res = "ok_stream", !.ep = http[t].ep, !.ran = http[t].ran,
                               !.appended = appended, !.input = http[t].input,
                               !.out = [segments |-> segments,
                                        buffer_size_ms |-> BufferSizeMs(ring)]]]
    /\ mutex' = Unlocked(t)

\* the thread_local audio_buffer as the samples of the connections that sent
\* them: a sequence of stretches, each of one connection
RECURSIVE RingLen(_)
RingLen(ring) == IF ring = <<>> THEN 0 ELSE Head(ring).n + RingLen(Tail(ring))

RingClients(ring) == {ring[i].client : i \in DOMAIN ring}

\* audio_buffer.insert(audio_buffer.end(), ...): n samples of connection k
AppendSamples(ring, k, n) ==
    IF n = 0 THEN ring
    ELSE IF ring # <<>> /\ ring[Len(ring)].client = k
    THEN [ring EXCEPT ![Len(ring)].n = @ + n]
    ELSE Append(ring, [client |-> k, n |-> n])

\* audio_buffer.erase(begin, end - n): the last n samples stay
RECURSIVE LastSamples(_, _)
LastSamples(ring, n) ==
    IF n = 0 \/ ring = <<>> THEN <<>>
    ELSE LET last == ring[Len(ring)]
             front == SubSeq(ring, 1, Len(ring) - 1)
         IN  IF last.n >= n THEN << [last EXCEPT !.n = n] >>
             ELSE Append(LastSamples(front, n - last.n), last)

StreamBody(t, has_audio, n_bytes) ==
    /\ alive
    /\ http[t].pc = "locked" /\ http[t].ep = "stream"
    /\ IF ~has_audio
       THEN /\ Return(t, "err_no_audio")
            /\ UNCHANGED <<stream_buffer, stream_ring>>
       ELSE LET n == stream_buffer[t] + StreamSamples(n_bytes) IN
            /\ n <= MaxStreamBuffer
            /\ stream_buffer' = [stream_buffer EXCEPT ![t] = n]
            /\ stream_ring' = [stream_ring EXCEPT ![t] =
                                 AppendSamples(@, http[t].client, StreamSamples(n_bytes))]
            /\ IF n >= min_samples
               THEN /\ StreamRun(t, StreamSamples(n_bytes), n)
                    /\ UNCHANGED mutex
               ELSE StreamReturn(t, StreamSamples(n_bytes), 0, n)
    /\ UNCHANGED <<ctx, alive, sparams, diar, stamp, ipc, wav, overlay, boot, params, default_params,
                   ws_open, active_connections, conn, ws, ws_events>>

StreamEnd(t, rc) ==
    /\ alive
    /\ http[t].pc = "run" /\ http[t].ep = "stream"
    /\ IF rc # 0
       THEN /\ Return(t, "err_engine")
            /\ UNCHANGED <<stream_buffer, stream_ring>>
       ELSE /\ \E segments \in StreamSegmentCounts :
                  StreamReturn(t, http[t].appended, segments, StreamPrune(stream_buffer[t]))
            /\ stream_buffer' = [stream_buffer EXCEPT ![t] = StreamPrune(@)]
            /\ stream_ring' = [stream_ring EXCEPT ![t] =
                                 LastSamples(@, StreamPrune(stream_buffer[t]))]
    /\ UNCHANGED <<ctx, alive, sparams, diar, stamp, ipc, wav, overlay, boot, params, default_params,
                   ws_open, active_connections, conn, ws, ws_events>>

-----------------------------------------------------------------------------
(* POST /load: free the cold handle and initialise it from another file *)

\* up to whisper_free: the request is checked and the handle freed
LoadBody(t, has_model, model) ==
    /\ alive
    /\ http[t].pc = "locked" /\ http[t].ep = "load"
    /\ IF ~has_model THEN Return(t, "err_no_model") /\ UNCHANGED ctx
       ELSE IF ~is_file_exist(model) THEN Return(t, "err_model_not_found") /\ UNCHANGED ctx
       ELSE /\ ctx' = [ctx EXCEPT !.state = "freed"]
            /\ http' = [http EXCEPT ![t].pc = "load_init", ![t].handle = "ctx",
                                     ![t].model = model]
            /\ UNCHANGED mutex
    /\ UNCHANGED <<alive, sparams, diar, stamp, ipc, wav, overlay, boot, params, default_params, stream_buffer, stream_ring,
                   ws_open, active_connections, conn, ws, ws_events>>

\* whisper_init_from_file_with_params returns and is assigned to ctx; a null
\* handle ends the process
LoadInit(t, ok) ==
    /\ alive
    /\ http[t].pc = "load_init" /\ http[t].ep = "load"
    /\ IF ok
       THEN /\ ctx' = [state |-> "loaded", model |-> http[t].model]
            /\ Return(t, "ok_load")
            /\ UNCHANGED alive
       ELSE /\ ctx' = [ctx EXCEPT !.state = "null"]
            /\ alive' = FALSE
            /\ UNCHANGED <<http, mutex>>
    /\ UNCHANGED <<sparams, diar, stamp, ipc, wav, overlay, boot, params, default_params, stream_buffer, stream_ring,
                   ws_open, active_connections, conn, ws, ws_events>>

-----------------------------------------------------------------------------
(* WebSocket surface: WhisperWebSocketHandler, run by the one poll thread *)

Conns == {"c1", "c2"}
NoConn == "none"

\* the contents of a vector of samples: a run of consecutive samples of the
\* session, which are numbered from 1 in the order they arrive
EmptyRun == [first |-> 1, last |-> 0]
RunLen(r) == r.last - r.first + 1

\* resize and fill: n samples put behind the last one
AppendRun(r, n) == [r EXCEPT !.last = @ + n]

\* the range [end - n, end) of a vector: copied out for the engine, and what
\* erase(begin, end - n) leaves
TakeFirst(r, n) == [r EXCEPT !.last = r.first + n - 1]
TakeLast(r, n) == [r EXCEPT !.first = r.last - n + 1]

\* a WebSocketConnection as onWSConnect creates it, with what the session
\* has received and what was sent to it so far
NewConnection ==
    [ audio_buffer   |-> 0,      \* audio_buffer.size()
      ring           |-> EmptyRun, \* the samples in audio_buffer
      idle           |-> 0,      \* milliseconds since last_activity
      is_active      |-> TRUE,
      received       |-> 0,      \* samples received in binary frames
      inferences     |-> 0,      \* engine calls made for the session
      transcriptions |-> 0,      \* transcription frames sent
      pongs          |-> 0,      \* pong frames sent
      last_text      |-> <<>>,   \* text of the last transcription frame
      frames         |-> 0,      \* binary frames whose handling has begun
      handled        |-> 0,      \* binary frames whose handling has completed
      emitted_for    |-> 0 ]     \* the frame that triggered the last transcription frame

NoConnection == [NewConnection EXCEPT !.is_active = FALSE]

\* the poll thread between callbacks; `before` and `result` describe the engine
\* call of the frame being handled: the ring size at the call and its outcome
WsIdle == [pc |-> "idle", conn |-> NoConn, pl_len |-> 0, found |-> FALSE,
           before |-> 0, result |-> "none", text |-> <<>>, sent |-> 0,
           op |-> "none", held |-> {}, chunk |-> EmptyRun]

\* the scope every access to active_connections is made in
RegistryLocks_none == {}
RegistryLocks == {"ws_connections_mutex"}

\* the mutexes thread t holds in the mutex state m
HeldBy(m, t) == {x \in MutexNames : m[x] = t}

\* the poll thread after a registry operation made inside the scope: the
\* operation and the mutexes held while it was made
RegistryOp(w, op) ==
    [w EXCEPT !.op = op, !.held = HeldBy(Locked(RegistryLocks, WsThread), WsThread)]

\* the closing brace of the scope in processAudioData
EndRegistryScope_late == mutex
EndRegistryScope == Unlocked(WsThread)

\* active_connections.push_back
Register_twice(seq, c) == Append(Append(seq, c), c)
Register(seq, c) == Append(seq, c)

InRegistry(c) == \E i \in DOMAIN active_connections : active_connections[i] = c

\* std::remove_if + erase: every entry of the connection is dropped
RemoveConn_front(seq, c) == IF seq = <<>> THEN seq ELSE Tail(seq)
RemoveConn_keep(seq, c) == seq
RemoveConn(seq, c) == SelectSeq(seq, LAMBDA x : x # c)

\* ws_server.poll calls the handler on the poll thread itself and the handler
\* calls processAudioChunk inline: the next callback waits for the return
PollThreadFree_detached == ws.pc \in {"idle", "run"}
PollThreadFree == ws.pc = "idle"

\* the poll thread delivers the next event to the handler
WsDelivers ==
    /\ alive
    /\ PollThreadFree
    /\ ws_events < MaxWsEvents
    /\ ws_events' = ws_events + 1

\* request paths the server may be configured with (--request-path)
RequestPaths == {"", "/api"}

\* request URIs of WebSocket handshakes
RequestUris == {"/hot_stream", "/api/hot_stream", "/stream", "/hot_stream/"}

\* onWSConnect: only the path /hot_stream is accepted
onWSConnect(c, request_uri) ==
    /\ WsDelivers
    /\ c \notin ws_open
    /\ IF request_uri # "/hot_stream"
       THEN UNCHANGED <<ws_open, active_connections, conn>>
       ELSE /\ CanLock(RegistryLocks)
            /\ conn' = [conn EXCEPT ![c] = NewConnection]
            /\ active_connections' = Register(active_connections, c)
            /\ ws_open' = ws_open \cup {c}
    /\ ws' = IF request_uri # "/hot_stream" THEN WsIdle
             ELSE RegistryOp(WsIdle, "insert")
    /\ UNCHANGED <<mutex, ctx, alive, sparams, diar, stamp, ipc, wav, overlay, boot, params, default_params, http,
                   stream_buffer, stream_ring>>

\* the body of onWSClose: under ws_connections_mutex the connection's entries
\* leave the registry
RemoveFromRegistry(c, how) ==
    /\ CanLock(RegistryLocks)
    /\ active_connections' = RemoveConn(active_connections, c)
    /\ ws_open' = ws_open \ {c}
    /\ ws' = RegistryOp([WsIdle EXCEPT !.conn = c, !.result = how, !.found = InRegistry(c)],
                        "erase")

\* onWSClose: the connection's entries leave the registry; the handler does
\* not assume that the connection is registered
onWSClose(c) ==
    /\ WsDelivers
    /\ RemoveFromRegistry(c, "closed")
    /\ UNCHANGED <<mutex, ctx, alive, sparams, diar, stamp, ipc, wav, overlay, boot, params, default_params, http,
                   stream_buffer, stream_ring, conn>>

\* a session is idle past the open-connection timeout
Expired(c) == c \in ws_open /\ conn[c].idle > OpenConnTimeoutMs

\* time passes for the sessions that have not expired yet
Tick ==
    /\ alive
    /\ \E c \in ws_open : ~Expired(c)
    /\ conn' = [c \in Conns |->
                 IF c \in ws_open /\ ~Expired(c)
                 THEN [conn[c] EXCEPT !.idle = @ + TickMs] ELSE conn[c]]
    /\ UNCHANGED <<mutex, ctx, alive, sparams, diar, stamp, ipc, wav, overlay, boot, params, default_params, http,
                   stream_buffer, stream_ring, ws_open, active_connections, ws, ws_events>>

\* idle reaping: the poll thread, between callbacks, closes an expired session,
\* which takes it out of the registry as onWSClose does
ReapIdle(c) ==
    /\ alive
    /\ PollThreadFree
    /\ Expired(c)
    /\ RemoveFromRegistry(c, "reaped")
    /\ UNCHANGED <<mutex, ctx, alive, sparams, diar, stamp, ipc, wav, overlay, boot, params, default_params, http,
                   stream_buffer, stream_ring, conn, ws_events>>

\* text frames as json::parse sees them: what the payload parses to, whether
\* the object has a "type" member, and the kind and value of that member
TextMessages ==
    { [json |-> "object",  has_type |-> TRUE,  type_kind |-> "string", type |-> "ping"],
      [json |-> "object",  has_type |-> TRUE,  type_kind |-> "string", type |-> "pong"],
      [json |-> "object",  has_type |-> TRUE,  type_kind |-> "string", type |-> "PING"],
      [json |-> "object",  has_type |-> TRUE,  type_kind |-> "number", type |-> "1"],
      [json |-> "object",  has_type |-> FALSE, type_kind |-> "none",   type |-> ""],
      [json |-> "array",   has_type |-> FALSE, type_kind |-> "none",   type |-> ""],
      [json |-> "invalid", has_type |-> FALSE, type_kind |-> "none",   type |-> ""] }

\* processTextMessage: json::parse throws on invalid JSON, contains("type") is
\* false on anything but an object with that member, the conversion to
\* std::string throws on a member that is not a string; every throw is caught
RepliesPong_anyType(message) ==
    message.json = "object" /\ message.has_type /\ message.type_kind = "string"
RepliesPong(message) ==
    /\ message.json # "invalid"
    /\ message.json = "object" /\ message.has_type
    /\ message.type_kind = "string"
    /\ message.type = "ping"

\* processTextMessage: a JSON message of type "ping" is answered with a pong
processTextMessage(c, message) ==
    /\ WsDelivers
    /\ c \in ws_open
    /\ conn' = [conn EXCEPT ![c].pongs = IF RepliesPong(message) THEN @ + 1 ELSE @]
    /\ ws' = WsIdle
    /\ UNCHANGED <<mutex, ctx, alive, sparams, diar, stamp, ipc, wav, overlay, boot, params, default_params, http,
                   stream_buffer, stream_ring, ws_open, active_connections>>

\* processAudioData, first part: the registry lookup under ws_connections_mutex
processAudioData_find(c, pl_len) ==
    /\ WsDelivers
    /\ c \in ws_open
    /\ CanLock(RegistryLocks)
    /\ mutex' = Locked(RegistryLocks, WsThread)
    /\ ws' = RegistryOp([WsIdle EXCEPT !.pc = "find", !.conn = c, !.pl_len = pl_len,
                                       !.found = InRegistry(c)], "lookup")
    /\ conn' = [conn EXCEPT ![c].frames = @ + 1]
    /\ UNCHANGED <<ctx, alive, sparams, diar, stamp, ipc, wav, overlay, boot, params, default_params, http,
                   stream_buffer, stream_ring, ws_open, active_connections>>

\* the samples of a binary frame: pl_len / 2
SampleCount_bytes(pl_len) == pl_len
SampleCount(pl_len) == pl_len \div 2

\* the whole 16-bit samples a client put into a frame of pl_len bytes
FrameSamples(pl_len) == pl_len \div 2

\* the trigger of processAudioData
Triggers_above(size) == size > min_samples
Triggers(size) == size >= min_samples

\* processAudioData, second part: the lock is released, the samples are
\* appended and the trigger decides whether processAudioChunk runs
processAudioData_append ==
    /\ alive
    /\ ws.pc = "find"
    /\ mutex' = EndRegistryScope
    /\ IF ~ws.found
       THEN /\ ws' = WsIdle
            /\ conn' = [conn EXCEPT ![ws.conn].handled = @ + 1]
       ELSE LET c == ws.conn
                n == conn[c].audio_buffer + SampleCount(ws.pl_len)
            IN  /\ conn' = [conn EXCEPT ![c].audio_buffer = n,
                                         ![c].ring = AppendRun(@, SampleCount(ws.pl_len)),
                                         ![c].idle = 0,
                                         ![c].received = @ + FrameSamples(ws.pl_len),
                                         ![c].handled = IF Triggers(n) THEN @ ELSE @ + 1]
                /\ ws' = IF Triggers(n) THEN [ws EXCEPT !.pc = "chunk"] ELSE WsIdle
    /\ UNCHANGED <<ctx, alive, sparams, diar, stamp, ipc, wav, overlay, boot, params, default_params, http,
                   stream_buffer, stream_ring, ws_open, active_connections, ws_events>>

\* the mutexes processAudioChunk takes around its engine call, and its handle
ProcessAudioChunkLocks_cold == {"whisper_mutex"}
ProcessAudioChunkLocks == {}
ProcessAudioChunkHandle == "hot_ctx"

\* processAudioChunk up to the engine call: the last process_samples of the
\* ring are copied out and whisper_full_parallel is entered
processAudioChunk_begin ==
    /\ alive
    /\ ws.pc = "chunk"
    /\ IF conn[ws.conn].audio_buffer < process_samples
       THEN /\ ws' = WsIdle
            /\ conn' = [conn EXCEPT ![ws.conn].handled = @ + 1]
            /\ UNCHANGED mutex
       ELSE /\ CanLock(ProcessAudioChunkLocks)
            /\ mutex' = Locked(ProcessAudioChunkLocks, WsThread)
            /\ ws' = [ws EXCEPT !.pc = "run", !.before = conn[ws.conn].audio_buffer,
                                !.chunk = TakeLast(conn[ws.conn].ring, process_samples)]
            /\ conn' = [conn EXCEPT ![ws.conn].inferences = @ + 1]
    /\ UNCHANGED <<ctx, alive, sparams, diar, stamp, ipc, wav, overlay, boot, params, default_params, http,
                   stream_buffer, stream_ring, ws_open, active_connections, ws_events>>

\* the characters find_first_not_of / find_last_not_of skip
Whitespace == {" ", "\t", "\n", "\r"}

\* transcription.erase(...): leading and trailing " \t\n\r" removed
RECURSIVE StripFront(_)
StripFront(s) == IF s # <<>> /\ Head(s) \in Whitespace THEN StripFront(Tail(s)) ELSE s
RECURSIVE StripBack(_)
StripBack(s) ==
    IF s # <<>> /\ s[Len(s)] \in Whitespace THEN StripBack(SubSeq(s, 1, Len(s) - 1)) ELSE s
Strip(s) == StripBack(StripFront(s))

\* a transcription frame is sent when the call succeeded and text is left
Emits_unstripped(rc, text) == rc = 0 /\ text # <<>>
Emits(rc, text) == rc = 0 /\ text # <<>> /\ Strip(text) # <<>>

\* the sliding window: the ring is cut to its last window_samples, whatever
\* the engine call returned
PruneRing_onSuccess(size, rc) ==
    IF rc = 0 /\ size > window_samples THEN window_samples ELSE size
PruneRing(size, rc) == IF size > window_samples THEN window_samples ELSE size

\* processAudioChunk from the return of the engine call: the result is sent
\* and the ring pruned
processAudioChunk_end(rc, text) ==
    /\ alive
    /\ ws.pc = "run"
    /\ LET c == ws.conn IN
       conn' = [conn EXCEPT
                 ![c].transcriptions = IF Emits(rc, text) THEN @ + 1 ELSE @,
                 ![c].last_text = IF Emits(rc, text) THEN Strip(text) ELSE @,
                 ![c].emitted_for = IF Emits(rc, text) THEN conn[c].frames ELSE @,
                 ![c].handled = @ + 1,
                 ![c].audio_buffer = PruneRing(@, rc),
                 ![c].ring = TakeLast(@, PruneRing(conn[c].audio_buffer, rc))]
    /\ mutex' = Unlocked(WsThread)
    /\ ws' = [ws EXCEPT !.pc = "idle", !.result = IF rc = 0 THEN "ok" ELSE "failed",
                         !.text = text, !.sent = IF Emits(rc, text) THEN 1 ELSE 0]
    /\ UNCHANGED <<ctx, alive, sparams, diar, stamp, ipc, wav, overlay, boot, params, default_params, http,
                   stream_buffer, stream_ring, ws_open, active_connections, ws_events>>

-----------------------------------------------------------------------------
(* Inputs *)

\* byte lengths of uploaded WAV blobs
FileLens == {43, 46}

\* contents a parameter part may carry
PartContents(name) ==
    CASE name \in IntParts          -> {"7", "abc"}
      [] name \in BoolParts         -> {"true", "false"}
      [] name = "language"          -> {"fr", "auto"}
      [] name = "response_format"   -> {"text", "srt"}

PartNames == {PartOrder[i] : i \in DOMAIN PartOrder}

\* the parameter parts of a request: at most MaxParts of them
PartSets ==
    UNION { [names -> UNION {PartContents(n) : n \in names}] :
            names \in {ns \in SUBSET PartNames : Cardinality(ns) <= MaxParts} }

WellTyped(parts) == \A n \in DOMAIN parts : parts[n] \in PartContents(n)

NoParts == [n \in {} |-> "none"]

\* a request to /inference: its file part, its parameter parts, and what the
\* converter and read_wav make of the file when the converter is on
InferenceRequests ==
    { [has_file |-> hf, file_len |-> n, parts |-> ps, convert_ok |-> co, read_ok |-> ro] :
        hf \in BOOLEAN, n \in FileLens, ps \in {q \in PartSets : WellTyped(q)},
        co \in BOOLEAN, ro \in BOOLEAN }

\* one request for each way the handler can treat it under the running
\* configuration: the outcomes of the converter count only when it is on,
\* the length of the blob only when it is off
RequestsFor(converter) ==
    { r \in InferenceRequests :
        /\ ~r.has_file => (r.parts = NoParts /\ r.file_len = 46)
        /\ (converter \/ ~r.has_file) => r.file_len = 46
        /\ (~converter \/ ~r.has_file) => (r.convert_ok /\ r.read_ok)
        /\ ~r.convert_ok => r.read_ok }

RequestsPlain == RequestsFor(FALSE)
RequestsConverted == RequestsFor(TRUE)
RequestsServed == IF sparams.ffmpeg_converter THEN RequestsConverted ELSE RequestsPlain

\* byte lengths of WebSocket binary frames
PayloadLens == {0, 3200, 32000, 35199, 35200, 65000}

\* bytes of the blobs handed to read_wav_content, and the longest data part
ByteValues == {0, 1, 127, 128, 255}
MaxWavData == 4

\* the blobs: a header cut short, or the whole header and data after it
WavHeader == [i \in 1..WavHeaderBytes |-> 82]
WavContents ==
    {SubSeq(WavHeader, 1, n) : n \in {0, 1, WavHeaderBytes - 1}}
    \cup {WavHeader \o data : data \in UNION {[1..k -> ByteValues] : k \in 0..MaxWavData}}

-----------------------------------------------------------------------------
(* main() from the command line to the listening server *)

\* what a command line does to whisper_params_parse: nothing wrong, -h, an
\* argument it does not know, or a flag whose value is missing
ArgvFaults == {"none", "help", "unknown_arg", "missing_value"}

\* whisper_lang_id: -1 for a language the engine does not know
Languages == {"en", "auto", "xx"}
whisper_lang_id_known(l) == l = "en"

\* the -dtw presets main() maps; any other non-empty name is unknown
DtwArgs == {"", "tiny", "bogus"}
DtwKnown(d) == d = "tiny"

Argvs ==
    { [fault |-> f, flags |-> fl, language |-> l, dtw |-> d, convert |-> c] :
        f \in ArgvFaults, fl \in SUBSET Flags, l \in Languages, d \in DtwArgs, c \in BOOLEAN }

ParsedParams(argv) == [whisper_params_parse(argv.flags) EXCEPT !.language = argv.language]

\* the process ends with `code`, for the reason `cause`
Exit(cause, code) ==
    boot' = [boot EXCEPT !.stage = "exited", !.cause = cause, !.code = code]

Proceed(stage) == boot' = [boot EXCEPT !.stage = stage]

BootUnchanged ==
    UNCHANGED <<mutex, ctx, alive, sparams, diar, stamp, ipc, http, stream_buffer, stream_ring,
                ws_open, active_connections, conn, ws, ws_events, wav, overlay>>

\* whisper_params_parse and main()'s test of its result
ParseArgs ==
    /\ boot.stage = "parse"
    /\ CASE boot.argv.fault = "help"          -> Exit("help", 0) /\ UNCHANGED params
         [] boot.argv.fault = "unknown_arg"   -> Exit("unknown_arg", 0) /\ UNCHANGED params
         [] boot.argv.fault = "missing_value" -> Exit("missing_value", 1) /\ UNCHANGED params
         [] boot.argv.fault = "none"          ->
                Proceed("validate") /\ params' = ParsedParams(boot.argv)
    /\ UNCHANGED default_params
    /\ BootUnchanged

\* main(): the language and the diarize/tinydiarize tests
ValidateParams ==
    /\ boot.stage = "validate"
    /\ IF params.language # "auto" /\ ~whisper_lang_id_known(params.language)
       THEN Exit("unknown_language", 0)
       ELSE IF ~StartupAccepts(params) THEN Exit("diarize_conflict", 0)
       ELSE IF boot.argv.convert THEN Proceed("ffmpeg")
       ELSE Proceed("dtw")
    /\ UNCHANGED <<params, default_params>>
    /\ BootUnchanged

\* check_ffmpeg_availibility
CheckFfmpeg(available) ==
    /\ boot.stage = "ffmpeg"
    /\ IF available THEN Proceed("dtw") ELSE Exit("no_ffmpeg", 0)
    /\ UNCHANGED <<params, default_params>>
    /\ BootUnchanged

\* main(): the DTW preset
InitDtw ==
    /\ boot.stage = "dtw"
    /\ IF boot.argv.dtw # "" /\ ~DtwKnown(boot.argv.dtw)
       THEN Exit("unknown_dtw", 3) ELSE Proceed("cold")
    /\ UNCHANGED <<params, default_params>>
    /\ BootUnchanged

\* main(): whisper_init_from_file_with_params for the cold model
InitCold(ok) ==
    /\ boot.stage = "cold"
    /\ IF ok THEN Proceed("hot") ELSE Exit("cold_init", 3)
    /\ UNCHANGED <<params, default_params>>
    /\ BootUnchanged

\* main(): whisper_init_from_file_with_params for the hot model
InitHot(ok) ==
    /\ boot.stage = "hot"
    /\ IF ok THEN Proceed("ws_init") ELSE Exit("hot_init", 3)
    /\ UNCHANGED <<params, default_params>>
    /\ BootUnchanged

\* main(): ws_server.init, then the handlers are registered and
\* default_params is taken
InitWs(ok) ==
    /\ boot.stage = "ws_init"
    /\ IF ok THEN Proceed("bind") /\ default_params' = params
       ELSE Exit("ws_init", 1) /\ UNCHANGED default_params
    /\ UNCHANGED params
    /\ BootUnchanged

\* main(): svr.bind_to_port
Bind(ok) ==
    /\ boot.stage = "bind"
    /\ IF ok THEN Proceed("listen") ELSE Exit("bind", 1)
    /\ UNCHANGED <<params, default_params>>
    /\ BootUnchanged

\* main(): svr.listen_after_bind returns
Listen(ok) ==
    /\ boot.stage = "listen"
    /\ IF ok THEN Exit("served", 0) ELSE Exit("listen", 1)
    /\ UNCHANGED <<params, default_params>>
    /\ BootUnchanged

-----------------------------------------------------------------------------
(* The server after startup *)

StartParams == {p \in {whisper_params_parse(f) : f \in SUBSET Flags} : StartupAccepts(p)}

InitServer(ps, converters, request_paths) ==
    /\ mutex = [m \in MutexNames |-> NoThread]
    /\ ctx = [state |-> "loaded", model |-> "base.en"]
    /\ alive = TRUE
    /\ sparams \in {[ffmpeg_converter |-> b, request_path |-> rp] :
                       b \in converters, rp \in request_paths}
    /\ params \in ps
    /\ default_params = params
    /\ http = [t \in HttpThreads |-> Idle]
    /\ stream_buffer = [t \in HttpThreads |-> 0]
    /\ stream_ring = [t \in HttpThreads |-> <<>>]
    /\ ws_open = {}
    /\ active_connections = <<>>
    /\ conn = [c \in Conns |-> NoConnection]
    /\ ws = WsIdle
    /\ ws_events = 0

InitAt(ps, converters, request_paths) ==
    /\ InitServer(ps, converters, request_paths)
    /\ diar = NoDiar /\ stamp = NoStamp /\ ipc = NoIpc
    /\ wav = NoWav
    /\ overlay = NoOverlay
    /\ boot = Booted

InitWith(ps, converters) == InitAt(ps, converters, {""})

Init == InitWith({Defaults}, {FALSE})

\* The dispatch fabric: two HTTP workers serving every route and the poll
\* thread serving one connection, each with the inputs that take it through
\* its engine call and through its early returns.
FabricRequest ==
    [has_file |-> TRUE, file_len |-> 46, parts |-> NoParts, convert_ok |-> TRUE,
     read_ok |-> TRUE]

Next ==
    \/ \E t \in HttpThreads, path \in Paths : Arrive(t, path)
    \/ \E t \in HttpThreads : Acquire(t)
    \/ \E t \in HttpThreads : HotStreamBody(t, TRUE, 46)
    \/ \E t \in HttpThreads, rc \in EngineRcs : HotStreamEnd(t, rc)
    \/ \E t \in HttpThreads : InferenceBody(t, FabricRequest)
    \/ \E t \in HttpThreads, rc \in EngineRcs : InferenceEnd(t, rc)
    \/ \E t \in HttpThreads, n \in {0, 70400} : StreamBody(t, TRUE, n)
    \/ \E t \in HttpThreads, rc \in EngineRcs : StreamEnd(t, rc)
    \/ \E t \in HttpThreads, path \in {"large", "missing"} : LoadBody(t, TRUE, path)
    \/ \E t \in HttpThreads, ok \in BOOLEAN : LoadInit(t, ok)
    \/ onWSConnect("c1", "/hot_stream")
    \/ processAudioData_find("c1", 35200)
    \/ processAudioData_append
    \/ processAudioChunk_begin
    \/ \E rc \in EngineRcs : processAudioChunk_end(rc, <<"a">>)

Spec == Init /\ [][Next]_vars

\* The batch endpoint alone: one worker serving /inference with every request
\* shape and /load, from every accepted startup configuration.
InitInference == InitWith(StartParams, BOOLEAN)

NextInference ==
    \/ \E path \in {"/inference", "/load"} : Arrive("h1", path)
    \/ Acquire("h1")
    \/ \E r \in RequestsServed : InferenceBody("h1", r)
    \/ \E rc \in EngineRcs : InferenceEnd("h1", rc)
    \/ \E hm \in BOOLEAN, path \in ModelPaths : LoadBody("h1", hm, path)
    \/ \E ok \in BOOLEAN : LoadInit("h1", ok)

SpecInference == InitInference /\ [][NextInference]_vars

\* The WebSocket surface alone: the poll thread serving two connections with
\* frames of every size class and every engine outcome, under every request
\* path.
InitWS == InitAt({Defaults}, {FALSE}, RequestPaths)

NextWS ==
    \/ \E c \in Conns, uri \in RequestUris : onWSConnect(c, uri)
    \/ \E c \in Conns : onWSClose(c)
    \/ \E c \in Conns, m \in TextMessages : processTextMessage(c, m)
    \/ \E c \in Conns, n \in PayloadLens : processAudioData_find(c, n)
    \/ processAudioData_append
    \/ processAudioChunk_begin
    \/ \E rc \in EngineRcs, text \in EngineTexts : processAudioChunk_end(rc, text)

SpecWS == InitWS /\ [][NextWS]_vars

\* The session lifecycle with time: the poll thread serving two connections,
\* the clock advancing, and idle sessions reaped. Time advances, the poll
\* thread keeps polling, and a callback that has begun returns.
NextReap ==
    \/ \E c \in Conns : onWSConnect(c, "/hot_stream")
    \/ \E c \in Conns : c \in ws_open /\ onWSClose(c)
    \/ \E c \in Conns : processTextMessage(c, CHOOSE m \in TextMessages : RepliesPong(m))
    \/ \E c \in Conns, n \in {3200, 35200} : processAudioData_find(c, n)
    \/ processAudioData_append
    \/ processAudioChunk_begin
    \/ \E rc \in EngineRcs : processAudioChunk_end(rc, <<"a">>)
    \/ Tick
    \/ \E c \in Conns : ReapIdle(c)

WsCallbackStep ==
    \/ processAudioData_append
    \/ processAudioChunk_begin
    \/ \E rc \in EngineRcs : processAudioChunk_end(rc, <<"a">>)

SpecReap ==
    /\ Init /\ [][NextReap]_vars
    /\ WF_vars(Tick)
    /\ WF_vars(WsCallbackStep)
    /\ \A c \in Conns : WF_vars(ReapIdle(c))

\* The three mutexes under contention: two HTTP workers serving every route
\* and the poll thread serving one connection and its first frame. A handler that has its mutex
\* runs on to its return, the engine calls included; a worker that finds its
\* mutex free again and again gets it; the poll thread's callbacks return.
HandlerStep(t) ==
    \/ HotStreamBody(t, TRUE, 46)
    \/ \E rc \in EngineRcs : HotStreamEnd(t, rc)
    \/ InferenceBody(t, FabricRequest)
    \/ \E rc \in EngineRcs : InferenceEnd(t, rc)
    \/ \E n \in {0, 70400} : StreamBody(t, TRUE, n)
    \/ \E rc \in EngineRcs : StreamEnd(t, rc)
    \/ LoadBody(t, TRUE, "large")
    \/ \E ok \in BOOLEAN : LoadInit(t, ok)

NextFair ==
    \/ \E t \in HttpThreads, path \in Paths : Arrive(t, path)
    \/ \E t \in HttpThreads : Acquire(t)
    \/ \E t \in HttpThreads : HandlerStep(t)
    \/ onWSConnect("c1", "/hot_stream")
    \/ conn["c1"].frames = 0 /\ processAudioData_find("c1", 35200)
    \/ WsCallbackStep

SpecFair ==
    /\ Init /\ [][NextFair]_vars
    /\ \A t \in HttpThreads : SF_vars(Acquire(t)) /\ WF_vars(HandlerStep(t))
    /\ WF_vars(WsCallbackStep)

\* The in-memory WAV decoder alone: one call on every blob.
InitWav ==
    /\ InitServer({Defaults}, {FALSE}, {""})
    /\ diar = NoDiar /\ stamp = NoStamp /\ ipc = NoIpc
    /\ overlay = NoOverlay
    /\ boot = Booted
    /\ wav \in {[NoWav EXCEPT !.state = "call", !.content = c, !.stereo = st] :
                  c \in WavContents, st \in BOOLEAN}

NextWav == ReadWavContent

SpecWav == InitWav /\ [][NextWav]_vars

\* The parameter overlay alone: one call on the parts of every request, with
\* the block every startup leaves.
InitOverlay ==
    /\ InitServer({Defaults}, {FALSE}, {""})
    /\ diar = NoDiar /\ stamp = NoStamp /\ ipc = NoIpc
    /\ wav = NoWav
    /\ boot = Booted
    /\ overlay \in {[NoOverlay EXCEPT !.state = "call", !.parts = ps, !.before = p] :
                      ps \in {q \in PartSets : WellTyped(q)}, p \in StartParams}

NextOverlay == GetReqParameters

SpecOverlay == InitOverlay /\ [][NextOverlay]_vars

\* byte lengths of the audio part of a request to /stream: none, 200 ms,
\* 900 ms and 1.1 s of float samples
StreamLens == {0, 12800, 57600, 70400}

\* The streaming endpoint alone: the workers serving /stream, each with its
\* thread_local ring, with requests of every size class and every engine
\* outcome.
InitStream == InitWith({Defaults}, {FALSE})

NextStream ==
    \/ \E t \in HttpThreads, k \in Clients : ArriveFrom(t, "/stream", k)
    \/ \E t \in HttpThreads : Acquire(t)
    \/ \E t \in HttpThreads, has_audio \in BOOLEAN, n \in StreamLens :
          StreamBody(t, has_audio, n)
    \/ \E t \in HttpThreads, rc \in EngineRcs : StreamEnd(t, rc)

SpecStream == InitStream /\ [][NextStream]_vars

\* lengths of a channel: none, one sample, and one and two samples more than
\* 10 ms units hold
ChannelLens == {0, 1, 161, 322}

\* sample values, in units in which 1.1 * energy is exact
SampleValues == {-11, 0, 10}

\* a channel: one value over its first 10 ms, another after
Channels(n) ==
    { [j \in 1..n |-> IF j <= 160 THEN a ELSE b] : a \in SampleValues, b \in SampleValues }

\* segment times in 10-ms units: before the start, inside the buffer, past
\* its end, and the last one the engine can give for an int number of samples
SegmentStarts == {-1, 0, 1}
SegmentEnds == {0, 1, 2, 3, 13421772}

\* The diarization heuristic alone: one call on every buffer and segment.
InitDiar ==
    /\ InitServer({Defaults}, {FALSE}, {""})
    /\ wav = NoWav /\ overlay = NoOverlay /\ boot = Booted
    /\ stamp = NoStamp /\ ipc = NoIpc
    /\ diar \in {[NoDiar EXCEPT !.state = "call", !.pcmf32s = <<c0, c1>>,
                                 !.t0 = t0, !.t1 = t1, !.id_only = io] :
                   c0 \in UNION {Channels(n) : n \in ChannelLens},
                   c1 \in UNION {Channels(n) : n \in ChannelLens},
                   t0 \in SegmentStarts, t1 \in SegmentEnds, io \in BOOLEAN}
    /\ Len(diar.pcmf32s[1]) = Len(diar.pcmf32s[2])

NextDiar == EstimateDiarizationSpeaker

SpecDiar == InitDiar /\ [][NextDiar]_vars

\* segment times in 10-ms units: around each carry of the clock, 100 hours,
\* and the last one whose milliseconds fit 31 bits
CueTimes == {0, 1, 99, 100, 5999, 6000, 359999, 360000, 36000000, 214748364}

\* segment indices, and the values get_req_parameters and the defaults give
\* offset_n
CueIndices == 0..2
OffsetNs == {0, 7, 30}

\* The cue formatting alone: one cue of every format, time, index and offset.
InitStamp ==
    /\ InitServer({Defaults}, {FALSE}, {""})
    /\ wav = NoWav /\ overlay = NoOverlay /\ boot = Booted
    /\ diar = NoDiar /\ ipc = NoIpc
    /\ stamp \in {[NoStamp EXCEPT !.state = "call", !.format = f, !.i = i,
                                   !.offset_n = o, !.t = t] :
                    f \in CueFormats, i \in CueIndices, o \in OffsetNs, t \in CueTimes}

NextStamp == FormatCue

SpecStamp == InitStamp /\ [][NextStamp]_vars

\* header fields the writer may have left: every status, chunk sizes around
\* the limits and off the size of a float, positions at the start, off the
\* size of a float, and around the end of the data region
HeaderStatuses == {0, 1, 2}
ChunkSizes == {0, 4, 5, 1024, MAX_CHUNK_SIZE, MAX_CHUNK_SIZE + 1}
ReadPositions == {0, 6, data_size_ - MAX_CHUNK_SIZE, data_size_ - 4, data_size_}
WritePositions == {0, 2048, data_size_}

\* The shared-memory reader alone: calls on every header.
InitIpc ==
    /\ InitServer({Defaults}, {FALSE}, {""})
    /\ wav = NoWav /\ overlay = NoOverlay /\ boot = Booted
    /\ diar = NoDiar /\ stamp = NoStamp
    /\ ipc \in {[NoIpc EXCEPT !.state = "unmapped"]}
              \cup {[NoIpc EXCEPT !.state = "mapped",
                                  !.header = [write_pos |-> w, read_pos |-> r,
                                              status |-> st, chunk_size |-> c]] :
                      w \in WritePositions, r \in ReadPositions,
                      st \in HeaderStatuses, c \in ChunkSizes}

NextIpc == ReadAudioChunk

SpecIpc == InitIpc /\ [][NextIpc]_vars

\* request paths of POST <P>/hot_stream under the request paths of InitWS
HotStreamPaths == {rp \o "/hot_stream" : rp \in RequestPaths}

\* The hot HTTP endpoint alone: the workers serving POST <P>/hot_stream with
\* every combination of a `file` part and an `audio` part, under every
\* request path.
InitHotStream == InitAt({Defaults}, {FALSE}, RequestPaths)

NextHotStream ==
    \/ \E t \in HttpThreads, path \in HotStreamPaths : Arrive(t, path)
    \/ \E t \in HttpThreads : Acquire(t)
    \/ \E t \in HttpThreads, has_file \in BOOLEAN, n \in FileLens, has_audio \in BOOLEAN :
          HotStreamRequest(t, has_file, n, has_audio)
    \/ \E t \in HttpThreads, rc \in EngineRcs : HotStreamEnd(t, rc)

SpecHotStream == InitHotStream /\ [][NextHotStream]_vars

\* main() alone, on every command line and with every outcome of the steps it
\* takes before it serves.
InitBoot ==
    /\ InitServer({Defaults}, {FALSE}, {""})
    /\ diar = NoDiar /\ stamp = NoStamp /\ ipc = NoIpc
    /\ wav = NoWav
    /\ overlay = NoOverlay
    /\ boot \in {[Booted EXCEPT !.stage = "parse", !.argv = a] : a \in Argvs}

NextBoot ==
    \/ ParseArgs
    \/ ValidateParams
    \/ \E available \in BOOLEAN : CheckFfmpeg(available)
    \/ InitDtw
    \/ \E ok \in BOOLEAN : InitCold(ok)
    \/ \E ok \in BOOLEAN : InitHot(ok)
    \/ \E ok \in BOOLEAN : InitWs(ok)
    \/ \E ok \in BOOLEAN : Bind(ok)
    \/ \E ok \in BOOLEAN : Listen(ok)

SpecBoot == InitBoot /\ [][NextBoot]_vars

-----------------------------------------------------------------------------
(* The serialization domains *)

\* the threads inside an engine call on the hot handle
HotInferring ==
    {t \in HttpThreads : http[t].pc = "run" /\ http[t].handle = "hot_ctx"}
    \cup (IF ws.pc = "run" /\ ProcessAudioChunkHandle = "hot_ctx" THEN {WsThread} ELSE {})

\* the threads inside an engine call on the cold handle, or freeing and
\* re-initialising it
ColdInferring ==
    {t \in HttpThreads : http[t].pc = "run" /\ http[t].handle = "ctx"}
    \cup (IF ws.pc = "run" /\ ProcessAudioChunkHandle = "ctx" THEN {WsThread} ELSE {})
ColdLoading == {t \in HttpThreads : http[t].pc = "load_init"}
ColdUsers == ColdInferring \cup ColdLoading

\* C1: at no instant are two inference calls in progress on the hot handle,
\* over all interleavings of WebSocket binary frames and POST /hot_stream.
C1_OneHotInferenceAtATime == Cardinality(HotInferring) <= 1

\* C2: at no instant are two operations in progress on the cold handle; every
\* inference on it and every free / re-initialise of it runs with
\* whisper_mutex held, so no inference runs on a freed handle.
C2_ColdHandleExclusive ==
    /\ Cardinality(ColdUsers) <= 1
    /\ \A t \in ColdUsers : mutex["whisper_mutex"] = t
    /\ ColdInferring # {} => ctx.state = "loaded"

\* C2 witness: /load has freed the handle and is re-initialising it while the
\* other worker has a request for the cold handle waiting
C2_Witness ==
    \E t, u \in HttpThreads :
        /\ http[t].pc = "load_init" /\ ctx.state = "freed"
        /\ http[u].pc = "wait" /\ http[u].ep \in {"inference", "stream"}

\* C3: each endpoint runs its inference in the domain the spec assigns to it:
\* /inference and /load hold the cold mutex and use the cold handle; HTTP
\* /hot_stream, WebSocket /hot_stream and /stream hold the hot mutex for the
\* whole engine call and use the hot handle.
C3_EndpointsInAssignedDomain ==
    /\ \A t \in HttpThreads :
          /\ (http[t].pc = "run" /\ http[t].ep = "inference")
                => (mutex["whisper_mutex"] = t /\ http[t].handle = "ctx")
          /\ http[t].pc = "load_init" => mutex["whisper_mutex"] = t
          /\ (http[t].pc = "run" /\ http[t].ep \in {"hot_stream", "stream"})
                => (mutex["hot_whisper_mutex"] = t /\ http[t].handle = "hot_ctx")
    /\ ws.pc = "run"
          => (mutex["hot_whisper_mutex"] = WsThread /\ ProcessAudioChunkHandle = "hot_ctx")

\* the steps of the poll thread inside the handling of one binary frame
WsStep ==
    \/ processAudioData_append
    \/ processAudioChunk_begin
    \/ \E rc \in EngineRcs, text \in EngineTexts : processAudioChunk_end(rc, text)

\* C4: the hot path never takes or waits on the cold mutex: the poll thread
\* never holds it, no HTTP /hot_stream request holds it, and inside the
\* handling of a binary frame the poll thread's next step (append, engine call,
\* emission) can always be taken, whoever holds the cold mutex and for however
\* long.
C4_HotPathIndependentOfCold ==
    /\ mutex["whisper_mutex"] # WsThread
    /\ \A t \in HttpThreads : http[t].ep = "hot_stream" => mutex["whisper_mutex"] # t
    /\ (alive /\ ws.pc # "idle") => ENABLED WsStep

\* C4 witness: a session with a full window is inside its engine call while a
\* POST /inference is inside its own engine call, holding the cold mutex
C4_Witness ==
    /\ ws.pc = "run" /\ conn[ws.conn].audio_buffer >= min_samples
    /\ \E t \in HttpThreads :
          http[t].pc = "run" /\ http[t].ep = "inference" /\ mutex["whisper_mutex"] = t

-----------------------------------------------------------------------------
(* The parameter block *)

\* C5: after every POST /inference that returns a formatted transcription the
\* shared parameter block equals the startup defaults.
C5_DefaultsAfterResponse ==
    \A t \in HttpThreads :
        (http[t].pc = "idle" /\ http[t].ep = "inference" /\ http[t].res \in Formatted)
            => params = default_params

\* C5 witness: a request that carried response_format=srt has been answered
C5_Witness == http["h1"].pc = "idle" /\ http["h1"].res = "ok_srt"

\* C6: whenever a POST /inference begins overlaying its parameter parts, the
\* shared block equals the startup defaults, whatever requests came before.
C6_DefaultsWhenOverlayBegins ==
    \A t \in HttpThreads :
        (http[t].pc = "locked" /\ http[t].ep = "inference") => params = default_params

\* C9: for every POST /inference that reaches the engine call, diarize and
\* tinydiarize are not both true in the effective parameters.
C9_NeverBothDiarizations ==
    \A t \in HttpThreads :
        (http[t].pc = "run" /\ http[t].ep = "inference")
            => ~(http[t].wparams.diarize /\ http[t].wparams.tdrz_enable)

-----------------------------------------------------------------------------
(* The session ring *)

\* C7: once the handling of a binary frame has completed, the session's ring
\* holds at most window_samples samples.
C7_RingBounded ==
    ws.pc = "idle" => \A c \in Conns : conn[c].audio_buffer <= window_samples

\* C7 witness: a frame took the ring past the window and it was cut back
C7_Witness ==
    /\ ws.pc = "idle" /\ ws.result # "none" /\ ws.before > window_samples
    /\ conn[ws.conn].audio_buffer = window_samples

\* C8: if the engine call triggered for a session fails, the ring after the
\* frame has been handled is the ring that was passed to the trigger.
C8_RingKeptOnFailure ==
    (ws.pc = "idle" /\ ws.result = "failed") => conn[ws.conn].audio_buffer = ws.before

\* C10 as claimed: while a session has received fewer than 17,600 samples, no
\* inference has been invoked for it and no text frame has been sent to it.
C10_NoTextFrameBeforeFirstWindow ==
    \A c \in Conns :
        conn[c].received < min_samples
            => (conn[c].inferences = 0 /\ conn[c].transcriptions = 0 /\ conn[c].pongs = 0)

\* C10 as amended: while a session has received fewer than 17,600 samples, no
\* inference has been invoked for it and no transcription frame has been sent
\* to it (a pong answering a ping is sent whatever the ring holds).
C10_NoTranscriptionBeforeFirstWindow ==
    \A c \in Conns :
        conn[c].received < min_samples
            => (conn[c].inferences = 0 /\ conn[c].transcriptions = 0)

\* C10 witness: a session one sample short of the first window, its frames handled
C10_Witness ==
    \E c \in ws_open :
        ws.pc = "idle" /\ conn[c].received = min_samples - 1 /\ conn[c].inferences = 0

-----------------------------------------------------------------------------
(* Emission *)

\* a text that is more than whitespace
HasContent(text) == \E i \in DOMAIN text : text[i] \notin Whitespace

\* C11: an inference invocation of the WebSocket path sends exactly one
\* transcription frame when the call succeeded and the concatenated segment
\* texts are more than whitespace, and no frame otherwise; the text sent has no
\* leading or trailing whitespace.
C11_OneFrameIffText ==
    (ws.pc = "idle" /\ ws.result \in {"ok", "failed"}) =>
        LET sent == conn[ws.conn].last_text IN
        /\ ws.sent = (IF ws.result = "ok" /\ HasContent(ws.text) THEN 1 ELSE 0)
        /\ ws.sent = 1 =>
              /\ sent # <<>>
              /\ sent[1] \notin Whitespace /\ sent[Len(sent)] \notin Whitespace
              /\ \E i, j \in DOMAIN ws.text :
                    /\ sent = SubSeq(ws.text, i, j)
                    /\ \A k \in DOMAIN ws.text : (k < i \/ k > j) => ws.text[k] \in Whitespace

\* C11 witness: the engine returned text wrapped in whitespace and the frame
\* sent carries it without the wrapping
C11_Witness ==
    /\ ws.pc = "idle" /\ ws.result = "ok" /\ ws.sent = 1
    /\ ws.text = <<" ", "a", "\t", "b", "\n">>
    /\ conn[ws.conn].last_text = <<"a", "\t", "b">>

-----------------------------------------------------------------------------
(* Control messages *)

\* a payload that is JSON with a member "type" equal to "ping"
IsPing(m) == m.json = "object" /\ m.has_type /\ m.type_kind = "string" /\ m.type = "ping"

\* C12: a text frame whose JSON has type "ping" sends exactly one pong frame on
\* that connection and any other text frame sends nothing; in every case the
\* rings, the registry and the open connections are unchanged, no inference
\* runs and no transcription frame is sent.
C12_PingPong ==
    [][\A c \in Conns, m \in TextMessages :
          processTextMessage(c, m) =>
              /\ conn'[c].pongs = conn[c].pongs + (IF IsPing(m) THEN 1 ELSE 0)
              /\ \A d \in Conns \ {c} : conn'[d] = conn[d]
              /\ conn'[c] = [conn[c] EXCEPT !.pongs = conn'[c].pongs]
              /\ active_connections' = active_connections
              /\ ws_open' = ws_open
              /\ ws'.pc = "idle"]_vars

\* C12 witness: a session with audio in its ring has been sent one pong
C12_Witness ==
    \E c \in ws_open :
        /\ ws.pc = "idle" /\ InRegistry(c)
        /\ conn[c].pongs = 1 /\ conn[c].audio_buffer > 0 /\ conn[c].inferences = 0

-----------------------------------------------------------------------------
(* Reloading the cold model *)

\* C13: POST /load naming a path that does not exist answers "model not
\* found!" and leaves the cold handle as it was, neither freed nor replaced, so
\* what follows runs on the model loaded before.
C13_MissingModelKeepsHandle ==
    [][\A t \in HttpThreads, path \in ModelPaths \ Models :
          LoadBody(t, TRUE, path) =>
              /\ ctx' = ctx
              /\ ctx.state = "loaded"
              /\ http'[t].pc = "idle" /\ http'[t].res = "err_model_not_found"]_vars

\* C13 witness: after a reload to another model, a /load of a missing path has
\* been refused and the reloaded model is still the one in place
C13_Witness ==
    /\ http["h1"].pc = "idle" /\ http["h1"].ep = "load"
    /\ http["h1"].res = "err_model_not_found"
    /\ ctx = [state |-> "loaded", model |-> "large"]

\* C14: POST /load with an existing path frees and re-initialises the cold
\* handle inside the cold domain, and a failed re-initialisation ends the
\* process: while the server runs, the handle is other than loaded only while
\* a /load holds whisper_mutex between the free and the init; no inference is
\* ever in progress on a handle that is not loaded; the process has ended
\* exactly when the handle is null, the previous model not restored.
C14_NoServingOnFreedHandle ==
    /\ (alive /\ ctx.state # "loaded") =>
          \E t \in HttpThreads : http[t].pc = "load_init" /\ mutex["whisper_mutex"] = t
    /\ ctx.state # "loaded" => ColdInferring = {}
    /\ ~alive <=> ctx.state = "null"
    /\ \A t \in HttpThreads : http[t].pc = "load_init" => ctx.state \in {"freed", "null"}

\* C14 witness: the re-initialisation has failed and the process has ended
\* while the other worker was waiting for the cold domain
C14_Witness ==
    /\ ~alive /\ ctx.state = "null"
    /\ \E t, u \in HttpThreads :
          /\ http[t].pc = "load_init" /\ mutex["whisper_mutex"] = t
          /\ http[u].pc = "wait" /\ http[u].ep = "inference"

-----------------------------------------------------------------------------
(* The session registry *)

\* C15: a WebSocket handshake is accepted if and only if its request URI is
\* exactly <request path>/hot_stream, under every configured request path; a
\* rejected handshake adds no session to the registry.
C15_HandshakeOnPrefixedPath ==
    [][\A c \in Conns, uri \in RequestUris :
          onWSConnect(c, uri) =>
              /\ c \in ws_open' <=> uri = sparams.request_path \o "/hot_stream"
              /\ c \notin ws_open' => active_connections' = active_connections]_vars

\* C16: removing a session by connection identity is total and idempotent: a
\* close for a connection that is not in the registry changes nothing, after a
\* close the connection has no entry left (so a second close changes nothing),
\* and the entries of the other sessions stay, in their order.
C16_RemoveByIdentity ==
    [][\A c \in Conns :
          onWSClose(c) =>
              LET old  == active_connections
                  new  == active_connections'
                  kept == {i \in DOMAIN old : old[i] # c}
              IN  /\ (\A i \in DOMAIN old : old[i] # c) => new = old
                  /\ \A i \in DOMAIN new : new[i] # c
                  /\ Len(new) = Cardinality(kept)
                  /\ \A i \in kept :
                        new[Cardinality({j \in kept : j <= i})] = old[i]]_vars

\* C16 witness: a close has been delivered for a connection that had no entry
\* in the registry while another session was registered, and that one remains
C16_Witness ==
    /\ ws.pc = "idle" /\ ws.result = "closed" /\ ~ws.found
    /\ ws.conn \notin ws_open
    /\ Len(active_connections) = 1 /\ active_connections[1] # ws.conn

-----------------------------------------------------------------------------
(* Ordering within a session *)

\* C18: within a session the handling of a binary frame (append, inference,
\* emission, pruning) completes before the handling of the next one begins,
\* and each transcription frame is sent for the frame being handled, later
\* than the frame the previous transcription frame was sent for.
C18_FramesInArrivalOrder ==
    [][\A c \in Conns :
          /\ conn[c].handled \in {conn[c].frames, conn[c].frames - 1}
          /\ conn'[c].frames = conn[c].frames + 1 => conn[c].handled = conn[c].frames
          /\ conn'[c].transcriptions = conn[c].transcriptions + 1 =>
                /\ conn[c].handled = conn[c].frames - 1
                /\ conn'[c].emitted_for = conn[c].frames
                /\ conn[c].emitted_for < conn[c].frames]_vars

\* C18 witness: two frames of a session have each triggered an inference and a
\* transcription frame, the second sent for the second frame
C18_Witness ==
    \E c \in ws_open :
        /\ ws.pc = "idle"
        /\ conn[c].frames = 2 /\ conn[c].handled = 2
        /\ conn[c].inferences = 2 /\ conn[c].transcriptions = 2 /\ conn[c].emitted_for = 2

-----------------------------------------------------------------------------
(* Frames that do not decode *)

\* C19: a binary frame whose byte count is not a multiple of 2 is skipped: the
\* session's ring is left as it was, and the frame triggers no inference and
\* no emission.
C19_UndecodableFrameSkipped ==
    [][(ws.pc = "find" /\ ws.found /\ ws.pl_len % 2 = 1) =>
          /\ conn'[ws.conn].audio_buffer = conn[ws.conn].audio_buffer
          /\ ws'.pc = "idle"]_vars

-----------------------------------------------------------------------------
(* The in-memory WAV decoder *)

\* C20: decoding a blob of N bytes fails when N < 44, succeeds with zero
\* samples when N = 44, and for N >= 44 succeeds with (N - 44) / 2 samples,
\* sample i the little-endian signed 16-bit value at bytes 44 + 2i divided by
\* 32768, so in [-1, 1).
C20_ReadWavContent ==
    wav.state = "returned" =>
        LET N == Len(wav.content)
            byte(k) == wav.content[k + 1]      \* the byte at offset k
        IN  /\ N < 44 => ~wav.ok
            /\ N = 44 => (wav.ok /\ wav.pcmf32 = <<>>)
            /\ N >= 44 =>
                  /\ wav.ok
                  /\ Len(wav.pcmf32) = (N - 44) \div 2
                  /\ \A i \in 0..(Len(wav.pcmf32) - 1) :
                        LET v == wav.pcmf32[i + 1] IN
                        /\ (v - (byte(44 + 2 * i) + 256 * byte(44 + 2 * i + 1))) % 65536 = 0
                        /\ -32768 <= v /\ v < 32768

\* C20 witness: a blob of 47 bytes has decoded to the one sample -1.0, its odd
\* last byte left out
C20_Witness ==
    /\ wav.state = "returned" /\ wav.ok
    /\ Len(wav.content) = 47
    /\ wav.pcmf32 = <<-32768>>

-----------------------------------------------------------------------------
(* Idle reaping *)

-----------------------------------------------------------------------------
(* The batch endpoint *)

\* C21: for every /inference engine call made while the cold model is not
\* multilingual, the language passed to the engine is "en" and translate is
\* false, whatever language, translate and detect_language parts the request
\* carried.
C21_MonolingualForcesEnglish ==
    \A t \in HttpThreads :
        (http[t].pc = "run" /\ http[t].ep = "inference"
            /\ ~whisper_is_multilingual(ctx.model))
            => (http[t].wparams.language = "en" /\ ~http[t].wparams.translate)

\* C22: an engine error does not poison the cold domain: the /inference whose
\* engine call returns non-zero answers with the error, releases whisper_mutex
\* and leaves the cold handle loaded and as it was, and a request waiting for
\* the cold domain can then acquire it.
C22_EngineErrorReleasesColdDomain ==
    [][\A t \in HttpThreads :
          InferenceEnd(t, 1) =>
              /\ http'[t].pc = "idle" /\ http'[t].res = "err_engine"
              /\ mutex'["whisper_mutex"] = NoThread
              /\ ctx' = ctx /\ ctx.state = "loaded"
              /\ \A u \in HttpThreads :
                    (http'[u].pc = "wait" /\ http'[u].ep \in {"inference", "stream", "load"})
                        => (ENABLED Acquire(u))']_vars

\* C22 witness: a /inference has answered with the engine error and the other
\* worker is inside the engine call of a /stream request, holding the domain
C22_Witness ==
    \E t, u \in HttpThreads :
        /\ http[t].pc = "idle" /\ http[t].ep = "inference" /\ http[t].res = "err_engine"
        /\ http[u].pc = "run" /\ http[u].ep = "stream" /\ mutex["whisper_mutex"] = u
        /\ ctx.state = "loaded"

\* the audio of a request does not decode: a blob shorter than the WAV header,
\* or with the converter on, a failed conversion or a failed read
Undecodable(audio, converter) ==
    IF converter THEN ~audio.convert_ok \/ ~audio.read_ok ELSE audio.file_len < 44

JsonErrors == {"err_no_file", "err_convert", "err_read_wav", "err_engine"}

\* C23: a POST /inference with no file part, or whose audio fails to decode,
\* answers with a JSON error body and never enters the engine for that request.
C23_NoEngineCallWithoutAudio ==
    \A t \in HttpThreads :
        http[t].ep = "inference" =>
            /\ (http[t].pc = "idle" /\ http[t].res # "none"
                    /\ (~http[t].audio.has_file
                          \/ Undecodable(http[t].audio, sparams.ffmpeg_converter)))
                  => (http[t].res \in JsonErrors /\ ~http[t].ran)
            /\ http[t].pc = "run"
                  => (http[t].audio.has_file
                       /\ ~Undecodable(http[t].audio, sparams.ffmpeg_converter))

\* C23 witness: the converter failed on the file of a request, which was
\* answered with the converter's error while the engine was not entered
C23_Witness ==
    /\ sparams.ffmpeg_converter
    /\ http["h1"].pc = "idle" /\ http["h1"].ep = "inference"
    /\ http["h1"].audio.has_file /\ ~http["h1"].audio.convert_ok
    /\ http["h1"].res = "err_convert" /\ ~http["h1"].ran

\* C24: in the /inference parameter overlay a part whose content fails to
\* parse leaves its parameter at the prior value and the other parts of the
\* same request are still applied.
C24_OverlayContinuesAfterBadPart ==
    overlay.state = "returned" =>
        \A name \in PartNames :
            overlay.after[name] =
                IF name \in DOMAIN overlay.parts /\ ~Throws(name, overlay.parts[name])
                THEN ApplyPart(overlay.before, name, overlay.parts[name])[name]
                ELSE overlay.before[name]

\* C25: the process exit code is 1 for an invalid command-line parse (unknown
\* argument, missing flag value) or a server bind failure, 3 for a model
\* initialisation failure (cold model, hot model, unknown DTW preset), and 0
\* only on success.
C25_ExitCodes ==
    boot.stage = "exited" =>
        /\ boot.cause \in {"unknown_arg", "missing_value", "bind"} => boot.code = 1
        /\ boot.cause \in {"unknown_dtw", "cold_init", "hot_init"} => boot.code = 3
        /\ boot.code = 0 => boot.cause \in {"served", "help"}

\* the number of registry entries that refer to connection c
Entries(seq, c) == Cardinality({i \in DOMAIN seq : seq[i] = c})

\* C26: the registry holds exactly the sessions whose handshake was accepted
\* and whose close has not been delivered, each once; a session enters it on
\* its accepted handshake, once, with an empty ring and its active flag set,
\* and is absent from it after its close.
C26_RegistryIsOpenSessions ==
    [][/\ \A c \in Conns :
              Entries(active_connections', c) = IF c \in ws_open' THEN 1 ELSE 0
       /\ \A c \in Conns :
              (c \in ws_open' /\ c \notin ws_open)
                  => /\ active_connections' = Append(active_connections, c)
                     /\ conn'[c].audio_buffer = 0
                     /\ conn'[c].is_active
       /\ \A c \in Conns :
              (ws'.op = "erase" /\ ws'.conn = c /\ ws_events' # ws_events)
                  => (~\E i \in DOMAIN active_connections' : active_connections'[i] = c)]_vars

\* C26 witness: two sessions were accepted and the first was closed; the
\* registry holds the second alone
C26_Witness ==
    /\ ws.op = "erase" /\ ws.conn = "c1" /\ ws.found
    /\ ws_open = {"c2"}
    /\ active_connections = <<"c2">>

\* C27: every insert, erase and lookup on the registry is made while the
\* registry mutex is held by the poll thread, which found it free; no insert
\* or erase happens while a lookup is in its scope.
C27_RegistryAccessInScope ==
    [][/\ ws'.op # "none" => "ws_connections_mutex" \in ws'.held
       /\ ws'.pc = "find" => mutex'["ws_connections_mutex"] = WsThread
       /\ active_connections' # active_connections
             => /\ mutex["ws_connections_mutex"] = NoThread
                /\ ws.pc # "find"
                /\ ws'.op \in {"insert", "erase"}]_vars

\* C27 witness: a lookup that found its session is inside the scope while
\* another session is registered
C27_Witness ==
    /\ ws.pc = "find" /\ ws.op = "lookup" /\ ws.found
    /\ mutex["ws_connections_mutex"] = WsThread
    /\ Len(active_connections) = 2

\* C28: the registry mutex is not held while an inference runs or while a
\* pong or a transcription frame is written; it is released before the
\* trigger check, the inference and the send.
C28_RegistryScopeExcludesInferenceAndSend ==
    [][/\ ws'.pc \in {"chunk", "run"} => mutex'["ws_connections_mutex"] = NoThread
       /\ \A c \in Conns :
              (conn'[c].pongs # conn[c].pongs
                 \/ conn'[c].transcriptions # conn[c].transcriptions)
                  => /\ mutex["ws_connections_mutex"] = NoThread
                     /\ mutex'["ws_connections_mutex"] = NoThread]_vars

\* C28 witness: an inference has run and its transcription frame was sent with
\* the registry mutex free
C28_Witness ==
    /\ ws.pc = "idle" /\ ws.result = "ok" /\ ws.sent = 1
    /\ conn[ws.conn].transcriptions = 1
    /\ mutex["ws_connections_mutex"] = NoThread

C30_StreamTriggerAndResidual ==
    [][\A t \in HttpThreads :
          (http[t].ep = "stream" /\ http'[t] # http[t]) =>
              /\ (http[t].pc = "locked" /\ http'[t].res # "err_no_audio")
                    => /\ stream_buffer'[t] = stream_buffer[t] + http'[t].appended
                       /\ http'[t].pc = "run" <=> stream_buffer'[t] >= 17600
                       /\ http'[t].pc = "run" => http'[t].input = stream_buffer'[t]
                       /\ http'[t].pc = "idle"
                             => /\ http'[t].res = "ok_stream" /\ ~http'[t].ran
                                /\ http'[t].out.segments = 0
              /\ (http[t].pc = "run" /\ http'[t].res = "ok_stream")
                    => /\ stream_buffer[t] = http[t].input
                       /\ stream_buffer'[t] = 3200
              /\ http'[t].res = "ok_stream"
                    => http'[t].out.buffer_size_ms = (stream_buffer'[t] * 1000) \div 16000]_vars

\* C30 witness: after a successful inference left 3,200 samples, a request of
\* 14,400 samples made the ring reach 17,600, the engine was given them all,
\* and the response carries two segments and buffer_size_ms = 200
C30_Witness ==
    /\ http["h1"].pc = "idle" /\ http["h1"].ep = "stream" /\ http["h1"].res = "ok_stream"
    /\ http["h1"].ran /\ http["h1"].appended = 14400 /\ http["h1"].input = 17600
    /\ http["h1"].out = [segments |-> 2, buffer_size_ms |-> 200]
    /\ stream_buffer["h1"] = 3200

\* C31: the ring a /stream request appends to holds the retained samples of
\* earlier /stream requests of the same client connection only: an inference
\* input never holds audio of two connections, and the samples of one
\* connection are never spread over two rings.
C31_RingPerConnection ==
    /\ \A t \in HttpThreads :
          (http[t].ep = "stream" /\ http[t].pc = "run")
              => RingClients(stream_ring[t]) \subseteq {http[t].client}
    /\ \A t, u \in HttpThreads :
          t # u => RingClients(stream_ring[t]) \cap RingClients(stream_ring[u]) = {}

\* C32: a POST <P>/hot_stream with an `audio` part and no `file` part is
\* served as a streaming chunk: it is answered with {segments,
\* buffer_size_ms}, not with an error.
C32_AudioPartServedAsChunk ==
    \A t \in HttpThreads :
        (http[t].pc = "idle" /\ http[t].res # "none"
            /\ http[t].ep \in {"hot_stream", "hot_stream_chunked"}
            /\ http[t].has_audio /\ ~http[t].audio.has_file)
            => (http[t].ep = "hot_stream_chunked" /\ http[t].res = "ok_stream")

\* the value x held between lo and hi
Clamp(x, lo, hi) == IF x < lo THEN lo ELSE IF x > hi THEN hi ELSE x

\* C33: for a two-channel buffer of N samples per channel and a segment
\* [t0, t1] in 10-ms units the label is "0" if energy0 > 1.1 energy1, else
\* "1" if energy1 > 1.1 energy0, else "?", the energies being the sums of the
\* absolute sample values between is0 = clamp(160 t0, 0, N-1) and
\* is1 = clamp(160 t1, 0, N-1); every index read lies in [0, N-1]; the label
\* is wrapped as "(speaker X)" unless id-only is requested.
C33_SpeakerByChannelEnergy ==
    diar.state = "returned" =>
        LET N == Len(diar.pcmf32s[1])
            \* clamp(160 t, 0, N-1), with 160 t compared before it is formed
            clamped(t) == IF N = 0 \/ t < 0 THEN 0
                          ELSE IF t >= N THEN N - 1
                          ELSE Clamp(160 * t, 0, N - 1)
            is0 == clamped(diar.t0)
            is1 == clamped(diar.t1)
            energy0 == Energy(diar.pcmf32s[1], is0, is1)
            energy1 == Energy(diar.pcmf32s[2], is0, is1)
            X == IF 10 * energy0 > 11 * energy1 THEN "0"
                 ELSE IF 10 * energy1 > 11 * energy0 THEN "1"
                 ELSE "?"
        IN  /\ diar.is0 = is0 /\ diar.is1 = is1
            /\ \A j \in diar.reads : 0 <= j /\ j <= N - 1
            /\ diar.speaker = IF diar.id_only THEN X ELSE "(speaker " \o X \o ")"

\* C33 witness: the first 10 ms of a 322-sample buffer were read, channel 1
\* was the louder one, and the label came wrapped
C33_Witness ==
    /\ diar.state = "returned"
    /\ Len(diar.pcmf32s[1]) = 322 /\ diar.t0 = 0 /\ diar.t1 = 1 /\ ~diar.id_only
    /\ diar.reads = 0..159
    /\ diar.speaker = "(speaker 1)"

\* the number a sequence of digit characters writes
RECURSIVE DigitsValue(_)
DigitsValue(digits) ==
    IF digits = <<>> THEN 0
    ELSE 10 * DigitsValue(SubSeq(digits, 1, Len(digits) - 1))
           + (CHOOSE d \in 0..9 : DigitChars[d + 1] = digits[Len(digits)])

IsDigits(digits) == \A k \in DOMAIN digits : \E d \in 0..9 : DigitChars[d + 1] = digits[k]

\* C34: for every time t >= 0 in 10-ms units to_timestamp renders
\* HH:MM:SS<sep>mmm with hours * 3,600,000 + minutes * 60,000 +
\* seconds * 1,000 + millis = 10 t, minutes and seconds in 0..59, millis in
\* 0..999, and ',' as the separator for SRT, '.' for VTT; SRT cue i (0-based)
\* is numbered i + 1 + offset_n.
C34_TimestampAndCueNumber ==
    stamp.state = "returned" =>
        LET text == stamp.text
            L == Len(text)
            HH == SubSeq(text, 1, L - 10)
            MM == SubSeq(text, L - 8, L - 7)
            SS == SubSeq(text, L - 5, L - 4)
            mmm == SubSeq(text, L - 2, L)
        IN  /\ L >= 12
            /\ IsDigits(HH) /\ IsDigits(MM) /\ IsDigits(SS) /\ IsDigits(mmm)
            /\ text[L - 9] = ":" /\ text[L - 6] = ":"
            /\ text[L - 3] = (IF stamp.format = "srt" THEN "," ELSE ".")
            /\ DigitsValue(MM) <= 59 /\ DigitsValue(SS) <= 59
            \* hours * 3,600,000 + ... = 10 t, with both sides divided by 10
            /\ DigitsValue(mmm) % 10 = 0
            /\ DigitsValue(HH) * 360000 + DigitsValue(MM) * 6000
                  + DigitsValue(SS) * 100 + DigitsValue(mmm) \div 10 = stamp.t
            /\ stamp.format = "srt" => stamp.number = stamp.i + 1 + stamp.offset_n

\* C34 witness: the third SRT cue of a request with offset_n = 7 is numbered
\* 10 and its time 359,999 is rendered as 00:59:59,990
C34_Witness ==
    /\ stamp.state = "returned" /\ stamp.format = "srt"
    /\ stamp.i = 2 /\ stamp.offset_n = 7 /\ stamp.number = 10
    /\ stamp.t = 359999
    /\ stamp.text = <<"0", "0", ":", "5", "9", ":", "5", "9", ",", "9", "9", "0">>

C36_ParamsOnlyUnderCold ==
    \A t \in HttpThreads, u \in HttpThreads :
        (/\ t # u
         /\ ParamsAccess(http[t].ep, http[t].pc) # "none"
         /\ http[u].ep = "inference" /\ ParamsAccess(http[u].ep, http[u].pc) = "write")
            => mutex["whisper_mutex"] = t

C38_ReadWithinBounds ==
    (ipc.calls > 0 /\ ipc.state \in {"returned", "crashed"}) =>
        IF ipc.before.status = 1 /\ ipc.before.chunk_size > 0
               /\ ipc.before.chunk_size <= MAX_CHUNK_SIZE
        THEN /\ ipc.copied <= 4 * ipc.floats
             /\ ipc.src >= 0 /\ ipc.src + ipc.copied <= data_size_
             /\ ipc.header.read_pos <= data_size_
        ELSE /\ ipc.floats = 0 /\ ipc.copied = 0
             /\ ipc.header = ipc.before

====
